---- MODULE Spec2Model ----
(***************************************************************************)
(* Valet parking backend: the Vehicle entity and its state machine, the    *)
(* round-robin valet assignment, the parking-zone slot accounting and the  *)
(* use cases and GraphQL mutations that drive them against the store.      *)
(*                                                                         *)
(* The specifications of this module share its variables:                  *)
(*   SpecEntity  the Vehicle class used as an in-memory object             *)
(*   SpecAssign  AssignValetRoundRobinUseCase.execute as a function of the *)
(*               valet table                                               *)
(*   Spec        the use cases and mutations running against the store,    *)
(*               every await being an interleaving point (SpecSeq is the   *)
(*               same system with one request in flight at a time)         *)
(*   SpecEntry, SpecSlots, SpecSinks, SpecFair, SpecFairComplete and       *)
(*   SpecDispatch are parts of SpecSeq: some of its requests, one at a     *)
(*   time, on the tables each of them describes                            *)
(***************************************************************************)
EXTENDS Integers, Sequences, FiniteSets, TLC

\* ------------------------------------------------------------------------
\* Bounds
\* ------------------------------------------------------------------------
NumValets == 2
MaxTime == 11
\* the time of day takes the values 0 .. DayLen-1
DayLen == 3
\* largest counter value of a valet row drawn for SpecAssign
TableMaxCount == 1
\* Spec: zones, slots of each zone, rows of the vehicles table, requests in
\* flight at once, and requests and mutations started in one behaviour
\* (MaxCalls when requests interleave, MaxSeqCalls when they run one at a
\* time, MaxFairCalls, MaxEntryCalls, MaxDispatchCalls and MaxSinkCalls in
\* SpecFairComplete, SpecEntry, SpecDispatch and SpecSinks)
NumZones == 2
SlotsPerZone == 1
MaxVehicles == 2
NumProcs == 2
MaxCalls == 2
MaxSeqCalls == 3
MaxFairCalls == 5
MaxEntryCalls == 2
MaxDispatchCalls == 3
MaxSinkCalls == 2
MaxParkCalls == 2
MaxResetCalls == 3
MaxDailyCalls == 5
MaxLiveCalls == 2

ValetIds == 1..NumValets
ZoneIds == 1..NumZones
VehicleIds == 1..MaxVehicles
Procs == 1..NumProcs
\* values that generateToken and allocateSlot (random 1..100) can produce
Tokens == {1, 2}
SlotLabels == {1, 100}

\* an optional constructor argument that was not given
Undefined == -1

\* ------------------------------------------------------------------------
\* VehicleState and VehicleStateMachine
\* ------------------------------------------------------------------------
VehicleState ==
    {"PARKING", "PARKED", "WAITING_MARKOUT", "SCHEDULED",
     "RETRIEVAL_ASSIGNED", "ON_THE_WAY", "DELIVERED", "CLOSED"}

transitionsMutAllowStart(s) ==
    CASE s = "PARKING" -> {"PARKED"}
      [] s = "PARKED" -> {"SCHEDULED", "WAITING_MARKOUT"}
      [] s = "WAITING_MARKOUT" -> {"SCHEDULED"}
      [] s = "SCHEDULED" -> {"RETRIEVAL_ASSIGNED", "ON_THE_WAY"}
      [] s = "RETRIEVAL_ASSIGNED" -> {"ON_THE_WAY"}
      [] s = "ON_THE_WAY" -> {"DELIVERED"}
      [] s = "DELIVERED" -> {"CLOSED"}
      [] OTHER -> {}

transitions(s) ==
    CASE s = "PARKING" -> {"PARKED"}
      [] s = "PARKED" -> {"SCHEDULED", "WAITING_MARKOUT"}
      [] s = "WAITING_MARKOUT" -> {"SCHEDULED"}
      [] s = "SCHEDULED" -> {"RETRIEVAL_ASSIGNED"}
      [] s = "RETRIEVAL_ASSIGNED" -> {"ON_THE_WAY"}
      [] s = "ON_THE_WAY" -> {"DELIVERED"}
      [] s = "DELIVERED" -> {"CLOSED"}
      [] OTHER -> {}

\* VehicleStateMachine.transition throws unless nextState is allowed
transitionThrows(currentState, nextState) ==
    nextState \notin transitions(currentState)

canBeMarkedOut(state) == state \in {"PARKED", "WAITING_MARKOUT"}

isReadyForRetrieval(state) == state \in {"SCHEDULED", "RETRIEVAL_ASSIGNED"}

\* ------------------------------------------------------------------------
\* Vehicle entity.  Each method is an operator from the object and the
\* clock to the object as the call leaves it and the error it threw.
\* Times are in minutes.
\* ------------------------------------------------------------------------
ValidMinutes == {5, 7, 10}
MinuteInputs == ValidMinutes \cup {0, 6}

NewVehicle(valetId, t) ==
    [state |-> "PARKING",
     arrivedAt |-> t,
     parkedAt |-> Undefined,
     markoutRequestedAt |-> Undefined,
     scheduledAt |-> Undefined,
     retrievalStartedAt |-> Undefined,
     deliveredAt |-> Undefined,
     closedAt |-> Undefined,
     parkingValetId |-> valetId,
     retrievalValetId |-> Undefined,
     updatedAt |-> t]

Ok(v) == [veh |-> v, err |-> "none"]
Throw(v, e) == [veh |-> v, err |-> e]

canBeMarkedParked(v) ==
    v.state = "PARKING" /\ v.parkingValetId # Undefined

markAsParked(v, t) ==
    IF ~canBeMarkedParked(v) THEN Throw(v, "CannotMarkParked")
    ELSE IF transitionThrows(v.state, "PARKED") THEN Throw(v, "InvalidTransition")
    ELSE Ok([v EXCEPT !.state = "PARKED", !.parkedAt = t, !.updatedAt = t])

canRequestMarkOut(v) == canBeMarkedOut(v.state)

requestMarkOut(v, selectedMinutes, t) ==
    IF ~canRequestMarkOut(v) THEN Throw(v, "CannotRequestMarkOut")
    ELSE IF selectedMinutes \notin ValidMinutes THEN Throw(v, "InvalidMarkOutTime")
    ELSE IF transitionThrows(v.state, "SCHEDULED") THEN Throw(v, "InvalidTransition")
    ELSE Ok([v EXCEPT !.state = "SCHEDULED",
                      !.markoutRequestedAt = t,
                      !.scheduledAt = t + selectedMinutes,
                      !.updatedAt = t])

\* retrievalValetId is assigned before the transition is attempted
assignRetrievalValet(v, valetId, t) ==
    IF ~isReadyForRetrieval(v.state) THEN Throw(v, "CannotAssignRetrievalValet")
    ELSE LET w == [v EXCEPT !.retrievalValetId = valetId] IN
         IF transitionThrows(w.state, "RETRIEVAL_ASSIGNED")
         THEN Throw(w, "InvalidTransition")
         ELSE Ok([w EXCEPT !.state = "RETRIEVAL_ASSIGNED", !.updatedAt = t])

isRetrievalTimeReached(v, t) ==
    IF v.scheduledAt = Undefined THEN FALSE ELSE t >= v.scheduledAt

startRetrieval(v, t) ==
    IF ~isReadyForRetrieval(v.state) THEN Throw(v, "CannotStartRetrieval")
    ELSE IF ~isRetrievalTimeReached(v, t) THEN Throw(v, "RetrievalTimeNotReached")
    ELSE IF transitionThrows(v.state, "ON_THE_WAY") THEN Throw(v, "InvalidTransition")
    ELSE Ok([v EXCEPT !.state = "ON_THE_WAY",
                      !.retrievalStartedAt = t,
                      !.updatedAt = t])

markAsDelivered(v, t) ==
    IF v.state # "ON_THE_WAY" THEN Throw(v, "CannotMarkDelivered")
    ELSE IF transitionThrows(v.state, "DELIVERED") THEN Throw(v, "InvalidTransition")
    ELSE Ok([v EXCEPT !.state = "DELIVERED", !.deliveredAt = t, !.updatedAt = t])

closeMutUnguarded(v, t) ==
    Ok([v EXCEPT !.state = "CLOSED", !.closedAt = t, !.updatedAt = t])

close(v, t) ==
    IF v.state # "DELIVERED" THEN Throw(v, "CannotClose")
    ELSE IF transitionThrows(v.state, "CLOSED") THEN Throw(v, "InvalidTransition")
    ELSE Ok([v EXCEPT !.state = "CLOSED", !.closedAt = t, !.updatedAt = t])

\* ------------------------------------------------------------------------
\* ValetStatus, Valet entity
\* ------------------------------------------------------------------------
ValetStatus == {"FREE", "BUSY", "BREAK", "OFF_DUTY"}

TimesOfDay == 0..(DayLen - 1)

\* shift_start / shift_end of a row: none, a day shift, an overnight shift
ShiftChoices ==
    {<<Undefined, Undefined>>, <<0, 1>>, <<DayLen - 1, 0>>}

ValetStatusRules_canBeAssigned(status) == status = "FREE"

\* v is a Valet object, tod the time of day (getHours() * 60 + getMinutes())
isInShiftMutAlways(v, tod) == TRUE

isInShift(v, tod) ==
    IF v.shiftStart = Undefined \/ v.shiftEnd = Undefined THEN TRUE
    ELSE IF v.shiftEnd < v.shiftStart
         THEN tod >= v.shiftStart \/ tod <= v.shiftEnd
         ELSE tod >= v.shiftStart /\ tod <= v.shiftEnd

canBeAssigned(v, tod) ==
    /\ v.isActive
    /\ ValetStatusRules_canBeAssigned(v.status)
    /\ isInShift(v, tod)

assignTaskMutNoTotal(v) ==
    [v EXCEPT !.status = "BUSY",
              !.assignmentSequence = @ + 1,
              !.todayCount = @ + 1]

assignTaskMutCountTwice(v) ==
    [v EXCEPT !.status = "BUSY",
              !.assignmentSequence = @ + 1,
              !.todayCount = @ + 2,
              !.totalCount = @ + 1]

\* Valet.assignTask after its canBeAssigned check has passed
assignTask(v) ==
    [v EXCEPT !.status = "BUSY",
              !.assignmentSequence = @ + 1,
              !.todayCount = @ + 1,
              !.totalCount = @ + 1]

\* ------------------------------------------------------------------------
\* ValetRepository
\* ------------------------------------------------------------------------
\* ValetRepository.toDomain: the Valet object of the row with this id
ValetToDomain(tab, id) ==
    [id |-> id,
     status |-> tab[id].status,
     assignmentSequence |-> tab[id].assignmentSequence,
     todayCount |-> tab[id].todayCount,
     totalCount |-> tab[id].totalCount,
     shiftStart |-> tab[id].shiftStart,
     shiftEnd |-> tab[id].shiftEnd,
     isActive |-> tab[id].isActive]

\* all orders of the elements of a finite set
RECURSIVE Orderings(_)
Orderings(S) ==
    IF S = {} THEN {<<>>}
    ELSE UNION {{<<x>> \o rest : rest \in Orderings(S \ {x})} : x \in S}

\* ValetRepository.findActive: the active rows ordered by
\* assignment_sequence; the store fixes no order among equal sequences,
\* so every such order is a possible result
FindActiveResults(tab) ==
    LET ids == {id \in DOMAIN tab : tab[id].isActive}
    IN {[i \in 1..Len(o) |-> ValetToDomain(tab, o[i])] :
           o \in {q \in Orderings(ids) :
                     \A i, j \in 1..Len(q) :
                         i < j => tab[q[i]].assignmentSequence
                                    <= tab[q[j]].assignmentSequence}}

\* ValetRepository.findAll: every row, ordered by name
FindAllResult(tab) == [i \in 1..NumValets |-> ValetToDomain(tab, i)]

\* ValetRepository.update: writes status and the three counters of the object
ValetUpdate(tab, v) ==
    [tab EXCEPT ![v.id] = [@ EXCEPT !.status = v.status,
                                    !.assignmentSequence = v.assignmentSequence,
                                    !.todayCount = v.todayCount,
                                    !.totalCount = v.totalCount]]

\* ------------------------------------------------------------------------
\* AssignValetRoundRobinUseCase.execute, up to the write
\* ------------------------------------------------------------------------
\* availableValets = allValets.filter((valet) => valet.canBeAssigned())
RECURSIVE FilterAssignable(_, _)
FilterAssignable(s, tod) ==
    IF s = <<>> THEN <<>>
    ELSE IF canBeAssigned(Head(s), tod)
         THEN <<Head(s)>> \o FilterAssignable(Tail(s), tod)
         ELSE FilterAssignable(Tail(s), tod)

\* availableValets.filter((v) => v.assignmentSequence === lowestSequence)
RECURSIVE FilterSequence(_, _)
FilterSequence(s, lowestSequence) ==
    IF s = <<>> THEN <<>>
    ELSE IF Head(s).assignmentSequence = lowestSequence
         THEN <<Head(s)>> \o FilterSequence(Tail(s), lowestSequence)
         ELSE FilterSequence(Tail(s), lowestSequence)

\* insert x after the elements whose key field is not larger
RECURSIVE InsertBy(_, _, _)
InsertBy(s, x, field) ==
    IF s = <<>> THEN <<x>>
    ELSE IF Head(s)[field] <= x[field]
         THEN <<Head(s)>> \o InsertBy(Tail(s), x, field)
         ELSE <<x>> \o s

\* Array.prototype.sort((a, b) => a.field - b.field), which is stable
RECURSIVE SortBy(_, _)
SortBy(s, field) ==
    IF s = <<>> THEN <<>>
    ELSE InsertBy(SortBy(SubSeq(s, 1, Len(s) - 1), field), s[Len(s)], field)

\* an error or a result that carries no status breakdown
NoBreakdown ==
    [FREE |-> Undefined, BUSY |-> Undefined, BREAK |-> Undefined,
     OFF_DUTY |-> Undefined, outOfShift |-> Undefined]

createNoAvailableValetsErrorMutNoShift(allValets, tod) ==
    [FREE |-> Cardinality({i \in 1..Len(allValets) : allValets[i].status = "FREE"}),
     BUSY |-> Cardinality({i \in 1..Len(allValets) : allValets[i].status = "BUSY"}),
     BREAK |-> Cardinality({i \in 1..Len(allValets) : allValets[i].status = "BREAK"}),
     OFF_DUTY |-> Cardinality({i \in 1..Len(allValets) :
                                  allValets[i].status = "OFF_DUTY"}),
     outOfShift |-> 0]

\* createNoAvailableValetsError: the numbers written into the message
createNoAvailableValetsError(allValets, tod) ==
    [FREE |-> Cardinality({i \in 1..Len(allValets) : allValets[i].status = "FREE"}),
     BUSY |-> Cardinality({i \in 1..Len(allValets) : allValets[i].status = "BUSY"}),
     BREAK |-> Cardinality({i \in 1..Len(allValets) : allValets[i].status = "BREAK"}),
     OFF_DUTY |-> Cardinality({i \in 1..Len(allValets) :
                                  allValets[i].status = "OFF_DUTY"}),
     outOfShift |-> Cardinality({i \in 1..Len(allValets) :
                                    ~isInShift(allValets[i], tod)})]

\* steps 1-5 on the list findActive returned: the error thrown with the
\* breakdown it carries, or the selected Valet object after assignTask
SelectValet(allValets, tod) ==
    IF Len(allValets) = 0
    THEN [err |-> "NoActiveValets", valet |-> Undefined, detail |-> NoBreakdown]
    ELSE
    LET availableValets ==
            SortBy(FilterAssignable(allValets, tod), "assignmentSequence")
    IN IF Len(availableValets) = 0
       THEN [err |-> "NoAvailableValets", valet |-> Undefined,
             detail |-> createNoAvailableValetsError(allValets, tod)]
       ELSE
       LET lowestSequence == availableValets[1].assignmentSequence
           filtered == FilterSequence(availableValets, lowestSequence)
           candidateValets ==
               IF Len(filtered) > 1 THEN SortBy(filtered, "todayCount")
               ELSE filtered
       IN [err |-> "none", valet |-> assignTask(candidateValets[1]),
           detail |-> NoBreakdown]

\* ------------------------------------------------------------------------
\* ParkingZoneRepository
\* ------------------------------------------------------------------------
FindAvailableZoneResultsMutAnySlots(zs) ==
    LET avail == {z \in DOMAIN zs : zs[z].isActive}
    IN {z \in avail : \A y \in avail : zs[z].priority <= zs[y].priority}

\* findAvailableZone: findFirst over the active zones with a free slot,
\* ordered by priority; the store fixes no order among equal priorities
FindAvailableZoneResults(zs) ==
    LET avail == {z \in DOMAIN zs : zs[z].availableSlots > 0 /\ zs[z].isActive}
    IN {z \in avail : \A y \in avail : zs[z].priority <= zs[y].priority}

decrementAvailableSlots(zs, id) ==
    [zs EXCEPT ![id].availableSlots = @ - 1]

incrementAvailableSlots(zs, id) ==
    [zs EXCEPT ![id].availableSlots = @ + 1]

\* ------------------------------------------------------------------------
\* VehicleRepository
\* ------------------------------------------------------------------------
VehicleToDomainMutShifted(row, id) ==
    [id |-> id,
     state |-> row.state,
     arrivedAt |-> 0,
     parkedAt |-> row.scheduled_at,
     markoutRequestedAt |-> Undefined,
     scheduledAt |-> Undefined,
     retrievalStartedAt |-> Undefined,
     deliveredAt |-> Undefined,
     closedAt |-> Undefined,
     parkingValetId |-> Undefined,
     retrievalValetId |-> Undefined,
     updatedAt |-> 0]

\* toDomain: the Vehicle object of a row; of the timestamps of the
\* lifecycle only scheduled_at is read back
VehicleToDomain(row, id) ==
    [id |-> id,
     state |-> row.state,
     arrivedAt |-> 0,
     parkedAt |-> Undefined,
     markoutRequestedAt |-> Undefined,
     scheduledAt |-> row.scheduled_at,
     retrievalStartedAt |-> Undefined,
     deliveredAt |-> Undefined,
     closedAt |-> Undefined,
     parkingValetId |-> row.parking_valet_id,
     retrievalValetId |-> row.retrieval_valet_id,
     updatedAt |-> 0]

\* findActiveByVehicleNumber finds a row
HasActiveByVehicleNumber(rows, vehicleNumber) ==
    \E i \in 1..Len(rows) :
        /\ rows[i].vehicle_number = vehicleNumber
        /\ rows[i].state \notin {"DELIVERED", "CLOSED"}

\* findUnique({ where: { token } }): token is a unique column, so create is
\* rejected by the store when the token is already there
TokenTaken(rows, token) ==
    \E i \in 1..Len(rows) : rows[i].token = token

\* create: the row inserted for a Vehicle object; the columns that create
\* does not set are null
VehicleCreate(rows, token, vehicleNumber, customerPhone, zone, slot, valetId) ==
    Append(rows, [token |-> token,
                  vehicle_number |-> vehicleNumber,
                  customer_phone |-> customerPhone,
                  zone |-> zone,
                  slot |-> slot,
                  state |-> "PARKING",
                  parking_valet_id |-> valetId,
                  retrieval_valet_id |-> Undefined,
                  markout_requested_at |-> Undefined,
                  scheduled_at |-> Undefined,
                  retrieval_started_at |-> Undefined,
                  delivered_at |-> Undefined])

\* updateState: writes the state column of the row
VehicleUpdateState(rows, id, state) ==
    [rows EXCEPT ![id].state = state]

\* ------------------------------------------------------------------------
\* CreateVehicleEntryUseCase: validation and normalisation.  Plates and
\* phones are sequences of characters.
\* ------------------------------------------------------------------------
DigitChars == {"0", "1", "2", "3", "4", "5", "6", "7", "8", "9"}

LocalPhone == <<"9", "8", "7", "6", "5", "4", "3", "2", "1", "0">>

PhoneInputs ==
    {LocalPhone,
     <<"9", "1">> \o LocalPhone,
     <<"1", "2", "3">>,
     <<" ">>}

PlateInputs ==
    {<<"K", "L", "1">>, <<"k", "l", " ", "1">>, <<"K", "L", "2">>,
     <<"K", "L", "3">>, <<" ">>}

OperatorInputs == {"SYSTEM", ""}

\* String.prototype.toUpperCase on the letters of PlateInputs
ToUpperCase(c) ==
    CASE c = "k" -> "K"
      [] c = "l" -> "L"
      [] OTHER -> c

\* s.replace(/\s+/g, '')
RECURSIVE RemoveSpaces(_)
RemoveSpaces(s) ==
    IF s = <<>> THEN <<>>
    ELSE IF Head(s) = " " THEN RemoveSpaces(Tail(s))
    ELSE <<Head(s)>> \o RemoveSpaces(Tail(s))

\* s.replace(/\D/g, '')
RECURSIVE RemoveNonDigits(_)
RemoveNonDigits(s) ==
    IF s = <<>> THEN <<>>
    ELSE IF Head(s) \in DigitChars THEN <<Head(s)>> \o RemoveNonDigits(Tail(s))
    ELSE RemoveNonDigits(Tail(s))

normalizeVehicleNumber(vehicleNumber) ==
    LET t == RemoveSpaces(vehicleNumber)
    IN [i \in 1..Len(t) |-> ToUpperCase(t[i])]

normalizePhoneNumber(phone) ==
    LET cleaned == RemoveNonDigits(phone)
    IN IF Len(cleaned) = 12 /\ cleaned[1] = "9" /\ cleaned[2] = "1"
       THEN SubSeq(cleaned, 3, 12)
       ELSE cleaned

\* /^[6-9]\d{9}$/ on a string of digits
phoneRegexTest(cleanPhone) ==
    /\ Len(cleanPhone) = 10
    /\ cleanPhone[1] \in {"6", "7", "8", "9"}

\* validateInput: the check that throws, "none" when it returns
validateInputMessage(vehicleNumber, customerPhone, entryOperatorId) ==
    IF RemoveSpaces(vehicleNumber) = <<>> THEN "VehicleNumberRequired"
    ELSE IF RemoveSpaces(customerPhone) = <<>> THEN "PhoneRequired"
    ELSE IF ~phoneRegexTest(RemoveNonDigits(customerPhone))
         THEN "InvalidPhone"
    ELSE IF entryOperatorId = "" THEN "OperatorRequired"
    ELSE "none"

\* validateInput: TRUE when it throws
validateInputThrows(vehicleNumber, customerPhone, entryOperatorId) ==
    validateInputMessage(vehicleNumber, customerPhone, entryOperatorId)
        # "none"

\* ------------------------------------------------------------------------
\* SpecEntity: one Vehicle object, its methods called in any order
\* ------------------------------------------------------------------------
VARIABLES
    veh,      \* the Vehicle object
    now,      \* the clock read by new Date() / Date.now()
    left,     \* history: the states the vehicle has been in and left
    lastOp,   \* history: the last method called, its error, the object before
    markOut,  \* SpecMarkOut: the MarkOutRequest object
    issuedToken  \* SpecToken: the last string generateToken returned

VARIABLES
    valets,   \* the valets table: id -> row
    asg       \* SpecAssign: the call of execute made on the drawn table

VARIABLES
    zones,    \* the parking_zones table: id -> row
    vehicles, \* the vehicles table: the sequence of rows, the id is the index
    procs,    \* the requests in flight: operation, position, local objects
    calls,    \* history: requests and mutations started so far
    assigned, \* history: per valet, the assignments written by execute
    pre       \* history: the tables when the only request in flight began

entityVars == <<veh, now, left, lastOp, markOut, issuedToken>>
assignVars == <<valets, asg>>
storeVars == <<zones, vehicles, procs, calls, assigned, pre>>
vars == <<veh, now, left, lastOp, markOut, issuedToken, valets, asg,
          zones, vehicles, procs, calls, assigned, pre>>

\* the variables of a specification that does not use them
EntityIdle ==
    /\ veh = <<>>
    /\ now = 0
    /\ left = {}
    /\ lastOp = <<>>
    /\ markOut = <<>>
    /\ issuedToken = <<>>

AssignIdle ==
    /\ valets = <<>>
    /\ asg = <<>>

StoreIdle ==
    /\ zones = <<>>
    /\ vehicles = <<>>
    /\ procs = <<>>
    /\ calls = 0
    /\ assigned = <<>>
    /\ pre = <<>>

EntityInit ==
    /\ now = 0
    /\ \E valetId \in ValetIds \cup {Undefined} : veh = NewVehicle(valetId, 0)
    /\ left = {}
    /\ lastOp = [name |-> "new", fresh |-> TRUE, err |-> "none",
                 before |-> veh]
    /\ markOut = <<>>
    /\ issuedToken = <<>>
    /\ AssignIdle
    /\ StoreIdle

\* the object after a call, with the history of the call: the method, the
\* error, the object before, and whether now is still the time of the call
Called(name, r) ==
    /\ veh' = r.veh
    /\ left' = IF r.veh.state # veh.state THEN left \cup {veh.state} ELSE left
    /\ lastOp' = [name |-> name, fresh |-> TRUE, err |-> r.err,
                  before |-> veh]
    /\ UNCHANGED <<now, markOut, issuedToken>>
    /\ UNCHANGED <<assignVars, storeVars>>

EMarkAsParked == Called("markAsParked", markAsParked(veh, now))

ERequestMarkOut ==
    \E m \in MinuteInputs : Called("requestMarkOut", requestMarkOut(veh, m, now))

EAssignRetrievalValet ==
    \E valetId \in ValetIds :
        Called("assignRetrievalValet", assignRetrievalValet(veh, valetId, now))

EStartRetrieval == Called("startRetrieval", startRetrieval(veh, now))

EMarkAsDelivered == Called("markAsDelivered", markAsDelivered(veh, now))

EClose == Called("close", close(veh, now))

ETick ==
    /\ now < MaxTime
    /\ now' = now + 1
    /\ lastOp' = [lastOp EXCEPT !.fresh = FALSE]
    /\ UNCHANGED <<veh, left, markOut, issuedToken>>
    /\ UNCHANGED <<assignVars, storeVars>>

EntityNext ==
    \/ EMarkAsParked
    \/ ERequestMarkOut
    \/ EAssignRetrievalValet
    \/ EStartRetrieval
    \/ EMarkAsDelivered
    \/ EClose
    \/ ETick

SpecEntity == EntityInit /\ [][EntityNext]_vars

\* ------------------------------------------------------------------------
\* SpecMarkOut: one MarkOutRequest object, its methods called in any order
\* ------------------------------------------------------------------------
\* new MarkOutRequest(id, vehicleId, requestedAt, retrieveAt, status)
NewMarkOutRequest(vehicleId, requestedAt, retrieveAt) ==
    [vehicleId |-> vehicleId, requestedAt |-> requestedAt,
     retrieveAt |-> retrieveAt, status |-> "PENDING"]

MarkOutRequest_complete(r) == [r EXCEPT !.status = "COMPLETED"]

MarkOutRequest_cancel(r) == [r EXCEPT !.status = "CANCELLED"]

MarkOutInit ==
    /\ \E vehicleId \in VehicleIds, requestedAt \in 0..MaxTime,
          selectedMinutes \in ValidMinutes :
          markOut = NewMarkOutRequest(vehicleId, requestedAt,
                                      requestedAt + selectedMinutes)
    /\ veh = <<>>
    /\ now = 0
    /\ left = {}
    /\ lastOp = [name |-> "new", fresh |-> TRUE, err |-> "none",
                 before |-> markOut]
    /\ issuedToken = <<>>
    /\ AssignIdle
    /\ StoreIdle

\* the request after a call, with the method and the request before it
MarkOutCalled(name, r) ==
    /\ markOut' = r
    /\ lastOp' = [name |-> name, fresh |-> TRUE, err |-> "none",
                  before |-> markOut]
    /\ UNCHANGED <<veh, now, left, issuedToken>>
    /\ UNCHANGED <<assignVars, storeVars>>

RComplete == MarkOutCalled("complete", MarkOutRequest_complete(markOut))

RCancel == MarkOutCalled("cancel", MarkOutRequest_cancel(markOut))

MarkOutNext ==
    \/ RComplete
    \/ RCancel

SpecMarkOut == MarkOutInit /\ [][MarkOutNext]_vars

\* ------------------------------------------------------------------------
\* SpecToken: generateToken called at drawn clock readings and random draws
\* ------------------------------------------------------------------------
DigitOf == <<"0", "1", "2", "3", "4", "5", "6", "7", "8", "9">>

\* Number.prototype.toString() of a non-negative integer
RECURSIVE NumberToString(_)
NumberToString(n) ==
    IF n < 10 THEN <<DigitOf[n + 1]>>
    ELSE NumberToString(n \div 10) \o <<DigitOf[(n % 10) + 1]>>

\* s.padStart(targetLength, c)
padStart(s, targetLength, c) ==
    IF Len(s) >= targetLength THEN s
    ELSE [i \in 1..(targetLength - Len(s)) |-> c] \o s

\* s.slice(-k)
SliceLast(s, k) ==
    IF Len(s) <= k THEN s ELSE SubSeq(s, Len(s) - k + 1, Len(s))

\* s.slice(0, k)
SliceFirst(s, k) ==
    IF Len(s) <= k THEN s ELSE SubSeq(s, 1, k)

\* Date.now().toString(): thirteen digits, kept as the millions of
\* milliseconds and the six digits below them
DateNowString(low) == NumberToString(1793800) \o padStart(NumberToString(low), 6, "0")

\* the six low digits of the clock readings drawn
LowMillis == {42, 123456}

\* Math.floor(Math.random() * 1000)
RandomValues == 0..999

generateToken(dateNow, random) ==
    LET timestamp == SliceLast(dateNow, 6)
        rnd == padStart(NumberToString(random), 3, "0")
    IN SliceFirst(<<"V", "L", "T", "-">> \o timestamp \o rnd, 12)

TokenInit ==
    /\ EntityIdle
    /\ AssignIdle
    /\ StoreIdle

GenerateToken ==
    /\ \E low \in LowMillis, random \in RandomValues :
          issuedToken' = generateToken(DateNowString(low), random)
    /\ UNCHANGED <<veh, now, left, lastOp, markOut>>
    /\ UNCHANGED <<assignVars, storeVars>>

TokenNext ==
    \/ GenerateToken

SpecToken == TokenInit /\ [][TokenNext]_vars

\* ------------------------------------------------------------------------
\* SpecAssign: execute called on a valet table drawn from bounded sets.
\* The call is made twice from the same table and time (a and b), each with
\* its own result of findActive; the table keeps the write of a.
\* ------------------------------------------------------------------------
\* totalCount counts every assignment, so it is not below todayCount. A row
\* that is not active or not FREE is drawn with the lowest counters and no
\* shift, the values with which it would be chosen first if it were not
\* filtered out.
DrawnRows ==
    {r \in [status : ValetStatus,
            assignmentSequence : 0..TableMaxCount,
            todayCount : 0..TableMaxCount,
            totalCount : {TableMaxCount},
            isActive : BOOLEAN,
            shiftStart : {w[1] : w \in ShiftChoices},
            shiftEnd : {w[2] : w \in ShiftChoices}] :
        /\ <<r.shiftStart, r.shiftEnd>> \in ShiftChoices
        /\ (~r.isActive \/ r.status # "FREE") =>
               /\ r.shiftStart = Undefined
               /\ r.assignmentSequence = 0
               /\ r.todayCount = 0}

AssignInit ==
    /\ valets \in [ValetIds -> DrawnRows]
    /\ asg = [ran |-> FALSE, tod |-> 0, before |-> valets,
              a |-> [err |-> "notrun", valet |-> Undefined,
                     detail |-> NoBreakdown],
              b |-> [err |-> "notrun", valet |-> Undefined,
                     detail |-> NoBreakdown]]
    /\ EntityIdle
    /\ StoreIdle

AExecute ==
    /\ ~asg.ran
    /\ \E tod \in TimesOfDay :
          LET results == {SelectValet(rows, tod) :
                             rows \in FindActiveResults(valets)}
          IN \E a \in results : \E b \in results :
                /\ asg' = [ran |-> TRUE, tod |-> tod, before |-> valets,
                           a |-> a, b |-> b]
                /\ valets' = IF a.err = "none"
                             THEN ValetUpdate(valets, a.valet)
                             ELSE valets
    /\ UNCHANGED <<entityVars, storeVars>>

AssignNext == AExecute

SpecAssign == AssignInit /\ [][AssignNext]_vars

\* ------------------------------------------------------------------------
\* Spec: the use cases and the GraphQL mutations against the store.  A use
\* case is a request that takes one step per awaited store call, so the
\* steps of two requests interleave; a mutation that is a single store call
\* is one step.
\* ------------------------------------------------------------------------
IdleProc ==
    [op |-> "none", pc |-> "idle", err |-> "none",
     plate |-> <<>>, phone |-> <<>>, dtoPhone |-> <<>>,
     message |-> "none", zone |-> 0, allValets |-> <<>>,
     valet |-> <<>>, vehicle |-> <<>>, id |-> 0, ret |-> 0]

NoPre == [valid |-> FALSE, valets |-> <<>>, zones |-> <<>>, vehicles |-> <<>>]

\* seed: every valet FREE and active with zero counters; the last valet may
\* have an overnight shift
SeedValet(isActive, shift) ==
    [status |-> "FREE", assignmentSequence |-> 0, todayCount |-> 0,
     totalCount |-> 0, isActive |-> isActive,
     shiftStart |-> shift[1], shiftEnd |-> shift[2]]

\* seed: every zone empty; the zones after the first may be inactive or
\* share the priority of the first
SeedZone(isActive, priority) ==
    [totalSlots |-> SlotsPerZone, availableSlots |-> SlotsPerZone,
     isActive |-> isActive, priority |-> priority]

Init ==
    /\ \E shift \in {<<Undefined, Undefined>>, <<DayLen - 1, 0>>} :
          valets = [id \in ValetIds |->
                       IF id = NumValets THEN SeedValet(TRUE, shift)
                       ELSE SeedValet(TRUE, <<Undefined, Undefined>>)]
    /\ \E isActive \in BOOLEAN, priority \in {1, 2} :
          /\ ~isActive => priority = 2
          /\ zones = [z \in ZoneIds |->
                         IF z = 1 THEN SeedZone(TRUE, 1)
                         ELSE SeedZone(isActive, priority)]
    /\ vehicles = <<>>
    /\ procs = [p \in Procs |-> IdleProc]
    /\ calls = 0
    /\ assigned = [id \in ValetIds |-> 0]
    /\ pre = NoPre
    /\ asg = <<>>
    /\ EntityIdle

InFlight(p) == procs[p].pc # "idle"

\* no request is in flight
Serial == \A p \in Procs : ~InFlight(p)

\* a request begins: the tables are remembered when it is alone
Begin(p, r) ==
    /\ procs[p].pc = "idle"
    /\ calls' = calls + 1
    /\ procs' = [procs EXCEPT ![p] = r]
    /\ pre' = IF Serial
              THEN [valid |-> TRUE, valets |-> valets, zones |-> zones,
                    vehicles |-> vehicles]
              ELSE NoPre

\* the request ends: with the error thrown, or with the valet it returns;
\* the plate and the id it was called with are kept until it is answered
Finish(p, err, ret) ==
    procs' = [procs EXCEPT ![p] =
                 [IdleProc EXCEPT !.op = procs[p].op, !.pc = "done",
                                  !.err = err, !.ret = ret,
                                  !.plate = procs[p].plate,
                                  !.id = procs[p].id]]

Goto(p, pc) == procs' = [procs EXCEPT ![p].pc = pc]

\* --- CreateVehicleEntryUseCase.execute --------------------------------
\* validateInput; the request keeps the plate and the phone of the dto in
\* the normalised form in which checkDuplicateEntry and the Vehicle use them
CallCreateEntry(p) ==
    /\ Len(vehicles)
         + Cardinality({q \in Procs : procs[q].op = "createEntry"
                                        /\ procs[q].pc # "done"})
         < MaxVehicles
    /\ \E vehicleNumber \in PlateInputs, customerPhone \in PhoneInputs,
          entryOperatorId \in OperatorInputs :
          Begin(p, IF validateInputThrows(vehicleNumber, customerPhone,
                                          entryOperatorId)
                   THEN [IdleProc EXCEPT !.op = "createEntry", !.pc = "done",
                                         !.err = "Validation",
                                         !.message =
                                             validateInputMessage(
                                                 vehicleNumber, customerPhone,
                                                 entryOperatorId),
                                         !.dtoPhone = customerPhone]
                   ELSE [IdleProc EXCEPT !.op = "createEntry", !.pc = "ce_dup",
                                         !.dtoPhone = customerPhone,
                                         !.plate = normalizeVehicleNumber(vehicleNumber),
                                         !.phone = normalizePhoneNumber(customerPhone)])
    /\ UNCHANGED <<valets, zones, vehicles, assigned>>

CECheckDuplicate(p) ==
    /\ procs[p].pc = "ce_dup"
    /\ IF HasActiveByVehicleNumber(vehicles, procs[p].plate)
       THEN Finish(p, "Duplicate", 0)
       ELSE Goto(p, "ce_zone")
    /\ UNCHANGED <<valets, zones, vehicles, calls, assigned, pre>>

CEFindZone(p) ==
    /\ procs[p].pc = "ce_zone"
    /\ IF FindAvailableZoneResults(zones) = {}
       THEN Finish(p, "NoSlots", 0)
       ELSE \E z \in FindAvailableZoneResults(zones) :
               procs' = [procs EXCEPT ![p].zone = z, ![p].pc = "a_read"]
    /\ UNCHANGED <<valets, zones, vehicles, calls, assigned, pre>>

\* --- AssignValetRoundRobinUseCase.execute -----------------------------
CallAssign(p) ==
    /\ Begin(p, [IdleProc EXCEPT !.op = "assign", !.pc = "a_read"])
    /\ UNCHANGED <<valets, zones, vehicles, assigned>>

\* findActive, then steps 2-5 on the objects it returned
ARead(p) ==
    /\ procs[p].pc = "a_read"
    /\ \E tod \in TimesOfDay : \E rows \in FindActiveResults(valets) :
          LET r == SelectValet(rows, tod)
          IN IF r.err # "none" THEN Finish(p, r.err, 0)
             ELSE procs' = [procs EXCEPT ![p].valet = r.valet,
                                         ![p].pc = "a_write"]
    /\ UNCHANGED <<valets, zones, vehicles, calls, assigned, pre>>

\* valetRepository.update(selectedValet)
AWrite(p) ==
    /\ procs[p].pc = "a_write"
    /\ valets' = ValetUpdate(valets, procs[p].valet)
    /\ assigned' = [assigned EXCEPT ![procs[p].valet.id] = @ + 1]
    /\ IF procs[p].op = "createEntry"
       THEN Goto(p, "ce_create")
       ELSE Finish(p, "none", procs[p].valet.id)
    /\ UNCHANGED <<zones, vehicles, calls, pre>>

\* generateToken, allocateSlot, vehicleRepository.create; savedVehicle is
\* the created row read through toDomain
CECreate(p) ==
    /\ procs[p].pc = "ce_create"
    /\ \E token \in Tokens, slot \in SlotLabels :
          IF TokenTaken(vehicles, token)
          THEN /\ Finish(p, "StoreRejected", 0)
               /\ UNCHANGED vehicles
          ELSE LET rows == VehicleCreate(vehicles, token,
                                  procs[p].plate, procs[p].phone,
                                  procs[p].zone, slot, procs[p].valet.id)
                   id == Len(rows)
               IN /\ vehicles' = rows
                  /\ procs' = [procs EXCEPT
                          ![p].vehicle = VehicleToDomain(rows[id], id),
                          ![p].id = id,
                          ![p].pc = "ce_decr"]
    /\ UNCHANGED <<valets, zones, calls, assigned, pre>>

\* the ways a call of a sink (whatsAppService.sendTokenMessage,
\* stateTransitionService.logTransition) can end; the services that
\* dependencies.ts constructs only write to the console and resolve
SinkResults == {"resolved", "rejected"}

WiredSinks == {"resolved"}

\* steps 10-11 of execute: the notification is sent inside try/catch, the
\* transition log is awaited outside of it; the error execute ends with
NotifyThenLog(sent, logged) ==
    IF logged = "rejected" THEN "AuditFailed" ELSE "none"

\* decrementAvailableSlots(zone.id), then the notification and the
\* transition log, which change no table, with sinks that end in these ways
CEDecrementWith(p, sinks) ==
    /\ procs[p].pc = "ce_decr"
    /\ zones' = decrementAvailableSlots(zones, procs[p].zone)
    /\ \E sent \in sinks, logged \in sinks :
          LET err == NotifyThenLog(sent, logged)
          IN Finish(p, err, IF err = "none" THEN procs[p].valet.id ELSE 0)
    /\ UNCHANGED <<valets, vehicles, calls, assigned, pre>>

CEDecrement(p) == CEDecrementWith(p, WiredSinks)

\* --- AssignValetRoundRobinUseCase.reassignFromValet --------------------
CallReassign(p) ==
    /\ \E valetId \in ValetIds \cup {0} :
          Begin(p, [IdleProc EXCEPT !.op = "reassign", !.pc = "r_find",
                                    !.id = valetId])
    /\ UNCHANGED <<valets, zones, vehicles, assigned>>

\* findById(valetId); an unknown id is skipped
RFind(p) ==
    /\ procs[p].pc = "r_find"
    /\ IF procs[p].id \in DOMAIN valets
       THEN procs' = [procs EXCEPT ![p].valet = ValetToDomain(valets, procs[p].id),
                                   ![p].pc = "r_update"]
       ELSE Goto(p, "a_read")
    /\ UNCHANGED <<valets, zones, vehicles, calls, assigned, pre>>

DecrementFlooredMutNoFloor(n) == n - 1

\* Math.max(0, n - 1)
DecrementFloored(n) == IF n - 1 > 0 THEN n - 1 ELSE 0

\* the counters of the abandoned valet lowered, then update(currentValet)
RUpdate(p) ==
    /\ procs[p].pc = "r_update"
    /\ valets' = ValetUpdate(valets,
                    [procs[p].valet EXCEPT
                        !.todayCount = DecrementFloored(@),
                        !.assignmentSequence = DecrementFloored(@)])
    /\ Goto(p, "a_read")
    /\ UNCHANGED <<zones, vehicles, calls, assigned, pre>>

\* --- MarkVehicleParkedUseCase.execute ---------------------------------
\* Valet.completeTask: the error thrown, or the object with status FREE
completeTaskMutFromBreak(v) ==
    IF v.status \notin {"BUSY", "BREAK"}
    THEN [err |-> "CannotCompleteTask", valet |-> v]
    ELSE [err |-> "none", valet |-> [v EXCEPT !.status = "FREE"]]

completeTask(v) ==
    IF v.status # "BUSY" THEN [err |-> "CannotCompleteTask", valet |-> v]
    ELSE [err |-> "none", valet |-> [v EXCEPT !.status = "FREE"]]

CallMarkParked(p) ==
    /\ \E vehicleId \in VehicleIds :
          Begin(p, [IdleProc EXCEPT !.op = "markParked", !.pc = "mp_vehicle",
                                    !.id = vehicleId])
    /\ UNCHANGED <<valets, zones, vehicles, assigned>>

\* steps 1-2: vehicleRepo.findById, the parking valet must be set
MPFindVehicle(p) ==
    /\ procs[p].pc = "mp_vehicle"
    /\ IF procs[p].id > Len(vehicles) THEN Finish(p, "VehicleNotFound", 0)
       ELSE LET vehicle == VehicleToDomain(vehicles[procs[p].id], procs[p].id)
            IN IF vehicle.parkingValetId = Undefined
               THEN Finish(p, "NoParkingValet", 0)
               ELSE procs' = [procs EXCEPT ![p].vehicle = vehicle,
                                           ![p].pc = "mp_valet"]
    /\ UNCHANGED <<valets, zones, vehicles, calls, assigned, pre>>

\* steps 3-4: valetRepo.findById, then vehicle.markAsParked()
MPFindValet(p) ==
    /\ procs[p].pc = "mp_valet"
    /\ IF procs[p].vehicle.parkingValetId \notin DOMAIN valets
       THEN Finish(p, "ValetNotFound", 0)
       ELSE LET r == markAsParked(procs[p].vehicle, now)
            IN IF r.err # "none" THEN Finish(p, r.err, 0)
               ELSE procs' = [procs EXCEPT
                       ![p].valet = ValetToDomain(valets,
                                        procs[p].vehicle.parkingValetId),
                       ![p].vehicle = r.veh,
                       ![p].pc = "mp_state"]
    /\ UNCHANGED <<valets, zones, vehicles, calls, assigned, pre>>

\* steps 5-6: vehicleRepo.updateState, then valet.completeTask()
MPUpdateState(p) ==
    /\ procs[p].pc = "mp_state"
    /\ vehicles' = VehicleUpdateState(vehicles, procs[p].vehicle.id,
                                      procs[p].vehicle.state)
    /\ LET r == completeTask(procs[p].valet)
       IN IF r.err # "none" THEN Finish(p, r.err, 0)
          ELSE procs' = [procs EXCEPT ![p].valet = r.valet,
                                      ![p].pc = "mp_free"]
    /\ UNCHANGED <<valets, zones, calls, assigned, pre>>

\* step 6: valetRepo.update(valet); step 7: the transition log, which
\* changes no table and is awaited outside of any try/catch
MPFreeValetWith(p, sinks) ==
    /\ procs[p].pc = "mp_free"
    /\ valets' = ValetUpdate(valets, procs[p].valet)
    /\ \E logged \in sinks :
          Finish(p, IF logged = "rejected" THEN "AuditFailed" ELSE "none", 0)
    /\ UNCHANGED <<zones, vehicles, calls, assigned, pre>>

MPFreeValet(p) == MPFreeValetWith(p, WiredSinks)

\* the caller has the result of the request
Return(p) ==
    /\ procs[p].pc = "done"
    /\ procs' = [procs EXCEPT ![p] = IdleProc]
    /\ pre' = NoPre
    /\ UNCHANGED <<valets, zones, vehicles, calls, assigned>>

\* --- mutations that are one store call --------------------------------
Mutation ==
    /\ calls' = calls + 1
    /\ pre' = NoPre
    /\ UNCHANGED <<procs, assigned>>

\* prisma.vehicles.update({ where: { id }, data }) with the row that the
\* mutation writes; an unknown id makes the call throw
WriteRow(vehicleId, row) ==
    vehicles' = IF vehicleId <= Len(vehicles)
                THEN [vehicles EXCEPT ![vehicleId] = row]
                ELSE vehicles

\* the row of the id, or an empty record for an unknown id
RowOf(vehicleId) ==
    IF vehicleId <= Len(vehicles) THEN vehicles[vehicleId]
    ELSE [state |-> "none", markout_requested_at |-> Undefined,
          scheduled_at |-> Undefined, retrieval_started_at |-> Undefined,
          delivered_at |-> Undefined]

MRequestMarkOut ==
    /\ Mutation
    /\ \E vehicleId \in VehicleIds, selectedMinutes \in MinuteInputs :
          WriteRow(vehicleId,
                   [RowOf(vehicleId) EXCEPT
                       !.state = "WAITING_MARKOUT",
                       !.markout_requested_at = now,
                       !.scheduled_at = IF selectedMinutes > 0
                                        THEN now + selectedMinutes
                                        ELSE now])
    /\ UNCHANGED <<valets, zones>>

MStartRetrieval ==
    /\ Mutation
    /\ \E vehicleId \in VehicleIds :
          WriteRow(vehicleId, [RowOf(vehicleId) EXCEPT
                                  !.state = "ON_THE_WAY",
                                  !.retrieval_started_at = now])
    /\ UNCHANGED <<valets, zones>>

MMarkVehicleDelivered ==
    /\ Mutation
    /\ \E vehicleId \in VehicleIds :
          WriteRow(vehicleId, [RowOf(vehicleId) EXCEPT
                                  !.state = "DELIVERED",
                                  !.delivered_at = now])
    /\ UNCHANGED <<valets, zones>>

MUpdateValetStatus ==
    /\ Mutation
    /\ \E valetId \in ValetIds, status \in ValetStatus :
          valets' = [valets EXCEPT ![valetId].status = status]
    /\ UNCHANGED <<zones, vehicles>>

\* prisma.valets.updateMany({ data: { today_count: 0 } })
MResetDailyCounters ==
    /\ Mutation
    /\ valets' = [id \in ValetIds |-> [valets[id] EXCEPT !.todayCount = 0]]
    /\ UNCHANGED <<zones, vehicles>>

\* ParkingZoneRepository.incrementAvailableSlots(id), the release of a slot
RIncrementAvailableSlots ==
    /\ Mutation
    /\ \E id \in ZoneIds : zones' = incrementAvailableSlots(zones, id)
    /\ UNCHANGED <<valets, vehicles>>

Idle == UNCHANGED <<entityVars, asg>>

CanStart == calls < MaxCalls

SeqCanStart == Serial /\ calls < MaxSeqCalls

Next ==
    \/ Idle /\ CanStart /\ \E p \in Procs : CallCreateEntry(p)
    \/ Idle /\ \E p \in Procs : CECheckDuplicate(p)
    \/ Idle /\ \E p \in Procs : CEFindZone(p)
    \/ Idle /\ CanStart /\ \E p \in Procs : CallAssign(p)
    \/ Idle /\ \E p \in Procs : ARead(p)
    \/ Idle /\ \E p \in Procs : AWrite(p)
    \/ Idle /\ \E p \in Procs : CECreate(p)
    \/ Idle /\ \E p \in Procs : CEDecrement(p)
    \/ Idle /\ CanStart /\ \E p \in Procs : CallReassign(p)
    \/ Idle /\ \E p \in Procs : RFind(p)
    \/ Idle /\ \E p \in Procs : RUpdate(p)
    \/ Idle /\ CanStart /\ \E p \in Procs : CallMarkParked(p)
    \/ Idle /\ \E p \in Procs : MPFindVehicle(p)
    \/ Idle /\ \E p \in Procs : MPFindValet(p)
    \/ Idle /\ \E p \in Procs : MPUpdateState(p)
    \/ Idle /\ \E p \in Procs : MPFreeValet(p)
    \/ Idle /\ \E p \in Procs : Return(p)
    \/ Idle /\ CanStart /\ MRequestMarkOut
    \/ Idle /\ CanStart /\ MStartRetrieval
    \/ Idle /\ CanStart /\ MMarkVehicleDelivered
    \/ Idle /\ CanStart /\ MUpdateValetStatus
    \/ Idle /\ CanStart /\ MResetDailyCounters
    \/ Idle /\ CanStart /\ RIncrementAvailableSlots

Spec == Init /\ [][Next]_vars

\* one request or mutation at a time: a new one begins only when none is
\* in flight
NextSeq ==
    \/ Idle /\ SeqCanStart /\ \E p \in Procs : CallCreateEntry(p)
    \/ Idle /\ \E p \in Procs : CECheckDuplicate(p)
    \/ Idle /\ \E p \in Procs : CEFindZone(p)
    \/ Idle /\ SeqCanStart /\ \E p \in Procs : CallAssign(p)
    \/ Idle /\ \E p \in Procs : ARead(p)
    \/ Idle /\ \E p \in Procs : AWrite(p)
    \/ Idle /\ \E p \in Procs : CECreate(p)
    \/ Idle /\ \E p \in Procs : CEDecrement(p)
    \/ Idle /\ SeqCanStart /\ \E p \in Procs : CallReassign(p)
    \/ Idle /\ \E p \in Procs : RFind(p)
    \/ Idle /\ \E p \in Procs : RUpdate(p)
    \/ Idle /\ SeqCanStart /\ \E p \in Procs : CallMarkParked(p)
    \/ Idle /\ \E p \in Procs : MPFindVehicle(p)
    \/ Idle /\ \E p \in Procs : MPFindValet(p)
    \/ Idle /\ \E p \in Procs : MPUpdateState(p)
    \/ Idle /\ \E p \in Procs : MPFreeValet(p)
    \/ Idle /\ \E p \in Procs : Return(p)
    \/ Idle /\ SeqCanStart /\ MRequestMarkOut
    \/ Idle /\ SeqCanStart /\ MStartRetrieval
    \/ Idle /\ SeqCanStart /\ MMarkVehicleDelivered
    \/ Idle /\ SeqCanStart /\ MUpdateValetStatus
    \/ Idle /\ SeqCanStart /\ MResetDailyCounters
    \/ Idle /\ SeqCanStart /\ RIncrementAvailableSlots

SpecSeq == Init /\ [][NextSeq]_vars

\* createVehicleEntry only, one request at a time
EntryCanStart == Serial /\ calls < MaxEntryCalls

\* with one request at a time every request can take the first place
EntryNext ==
    \/ Idle /\ EntryCanStart /\ CallCreateEntry(1)
    \/ Idle /\ CECheckDuplicate(1)
    \/ Idle /\ CEFindZone(1)
    \/ Idle /\ ARead(1)
    \/ Idle /\ AWrite(1)
    \/ Idle /\ CECreate(1)
    \/ Idle /\ CEDecrement(1)
    \/ Idle /\ Return(1)

SpecEntry == Init /\ [][EntryNext]_vars

\* createVehicleEntry only, on zones that have room for every vehicle
SlotsInit ==
    /\ valets = [id \in ValetIds |-> SeedValet(TRUE, <<Undefined, Undefined>>)]
    /\ \E priority \in {1, 2} :
          zones = [z \in ZoneIds |->
                      [totalSlots |-> MaxVehicles, availableSlots |-> MaxVehicles,
                       isActive |-> TRUE,
                       priority |-> IF z = 1 THEN 1 ELSE priority]]
    /\ vehicles = <<>>
    /\ procs = [p \in Procs |-> IdleProc]
    /\ calls = 0
    /\ assigned = [id \in ValetIds |-> 0]
    /\ pre = NoPre
    /\ asg = <<>>
    /\ EntityIdle

SpecSlots == SlotsInit /\ [][EntryNext]_vars

\* createVehicleEntry and markVehicleParked, one request at a time, the use
\* cases constructed with sinks that may reject
SinksCanStart == Serial /\ calls < MaxSinkCalls

SinksNext ==
    \/ Idle /\ SinksCanStart /\ CallCreateEntry(1)
    \/ Idle /\ CECheckDuplicate(1)
    \/ Idle /\ CEFindZone(1)
    \/ Idle /\ ARead(1)
    \/ Idle /\ AWrite(1)
    \/ Idle /\ CECreate(1)
    \/ Idle /\ CEDecrementWith(1, SinkResults)
    \/ Idle /\ SinksCanStart /\ CallMarkParked(1)
    \/ Idle /\ MPFindVehicle(1)
    \/ Idle /\ MPFindValet(1)
    \/ Idle /\ MPUpdateState(1)
    \/ Idle /\ MPFreeValetWith(1, SinkResults)
    \/ Idle /\ Return(1)

SpecSinks == Init /\ [][SinksNext]_vars

\* createVehicleEntry and markVehicleParked, one request at a time, with the
\* sinks that dependencies.ts constructs
ParkCanStart == Serial /\ calls < MaxParkCalls

ParkNext ==
    \/ Idle /\ ParkCanStart /\ CallCreateEntry(1)
    \/ Idle /\ CECheckDuplicate(1)
    \/ Idle /\ CEFindZone(1)
    \/ Idle /\ ARead(1)
    \/ Idle /\ AWrite(1)
    \/ Idle /\ CECreate(1)
    \/ Idle /\ CEDecrement(1)
    \/ Idle /\ ParkCanStart /\ CallMarkParked(1)
    \/ Idle /\ MPFindVehicle(1)
    \/ Idle /\ MPFindValet(1)
    \/ Idle /\ MPUpdateState(1)
    \/ Idle /\ MPFreeValet(1)
    \/ Idle /\ Return(1)

SpecPark == Init /\ [][ParkNext]_vars

\* ------------------------------------------------------------------------
\* SpecFair: assign calls only, one at a time, on valets that start FREE and
\* active with equal counters.  SpecFairComplete: the same with the valets'
\* tasks completed in between, and valets that are always within shift.
\* ------------------------------------------------------------------------
FairValets(count, shifts) ==
    [id \in ValetIds |->
        [status |-> "FREE", assignmentSequence |-> count,
         todayCount |-> count, totalCount |-> count, isActive |-> TRUE,
         shiftStart |-> shifts[id][1], shiftEnd |-> shifts[id][2]]]

FairStore ==
    /\ zones = [z \in ZoneIds |-> SeedZone(TRUE, 1)]
    /\ vehicles = <<>>
    /\ procs = [p \in Procs |-> IdleProc]
    /\ calls = 0
    /\ assigned = [id \in ValetIds |-> 0]
    /\ pre = NoPre
    /\ asg = <<>>
    /\ EntityIdle

FairInit ==
    /\ \E count \in 0..TableMaxCount, shifts \in [ValetIds -> ShiftChoices] :
          valets = FairValets(count, shifts)
    /\ FairStore

FairNext ==
    \/ Idle /\ SeqCanStart /\ \E p \in Procs : CallAssign(p)
    \/ Idle /\ \E p \in Procs : ARead(p)
    \/ Idle /\ \E p \in Procs : AWrite(p)
    \/ Idle /\ \E p \in Procs : Return(p)

SpecFair == FairInit /\ [][FairNext]_vars

FairCompleteInit ==
    /\ valets = FairValets(0, [id \in ValetIds |-> <<Undefined, Undefined>>])
    /\ FairStore

\* the end of a valet's task, as MarkVehicleParkedUseCase does it:
\* valetRepo.findById, valet.completeTask(), valetRepo.update(valet)
FComplete ==
    /\ Serial
    /\ \E id \in ValetIds :
          LET r == completeTask(ValetToDomain(valets, id))
          IN /\ r.err = "none"
             /\ valets' = ValetUpdate(valets, r.valet)
    /\ UNCHANGED <<zones, vehicles, procs, calls, assigned, pre>>

FairCanStart == Serial /\ calls < MaxFairCalls

FairCompleteNext ==
    \/ Idle /\ FairCanStart /\ \E p \in Procs : CallAssign(p)
    \/ Idle /\ \E p \in Procs : ARead(p)
    \/ Idle /\ \E p \in Procs : AWrite(p)
    \/ Idle /\ \E p \in Procs : Return(p)
    \/ Idle /\ FComplete

SpecFairComplete == FairCompleteInit /\ [][FairCompleteNext]_vars

\* ------------------------------------------------------------------------
\* SpecDispatch: the operations on valets, one request at a time: assign,
\* reassign, the end of a task and the change of a valet's status
\* ------------------------------------------------------------------------
\* the end of the task of any valet, as a request: valetRepo.findById, then
\* valet.completeTask() and valetRepo.update(valet) unless it threw
CallComplete(p) ==
    /\ \E valetId \in ValetIds :
          Begin(p, [IdleProc EXCEPT !.op = "complete", !.pc = "c_complete",
                                    !.id = valetId])
    /\ UNCHANGED <<valets, zones, vehicles, assigned>>

CComplete(p) ==
    /\ procs[p].pc = "c_complete"
    /\ LET r == completeTask(ValetToDomain(valets, procs[p].id))
       IN /\ valets' = IF r.err = "none" THEN ValetUpdate(valets, r.valet)
                       ELSE valets
          /\ Finish(p, r.err, 0)
    /\ UNCHANGED <<zones, vehicles, calls, assigned, pre>>

\* every valet FREE and active with zero counters; the last valet may have
\* an overnight shift
DispatchInit ==
    /\ \E shift \in {<<Undefined, Undefined>>, <<DayLen - 1, 0>>} :
          valets = FairValets(0, [id \in ValetIds |->
                                    IF id = NumValets THEN shift
                                    ELSE <<Undefined, Undefined>>])
    /\ FairStore

DispatchCanStart == Serial /\ calls < MaxDispatchCalls

\* with one request at a time every request can take the first place
DispatchNext ==
    \/ Idle /\ DispatchCanStart /\ CallAssign(1)
    \/ Idle /\ ARead(1)
    \/ Idle /\ AWrite(1)
    \/ Idle /\ DispatchCanStart /\ CallReassign(1)
    \/ Idle /\ RFind(1)
    \/ Idle /\ RUpdate(1)
    \/ Idle /\ DispatchCanStart /\ CallComplete(1)
    \/ Idle /\ CComplete(1)
    \/ Idle /\ Return(1)
    \/ Idle /\ DispatchCanStart /\ MUpdateValetStatus

SpecDispatch == DispatchInit /\ [][DispatchNext]_vars

\* ------------------------------------------------------------------------
\* SpecReset: the dispatcher's assign, reassign, complete and
\* resetDailyCounters as requests that interleave at their awaits
\* ------------------------------------------------------------------------
resetDailyCountersMutTodayOnly(v) ==
    [v EXCEPT !.todayCount = 0]

\* Valet.resetDailyCounters
resetDailyCounters(v) ==
    [v EXCEPT !.assignmentSequence = 0, !.todayCount = 0]

\* --- AssignValetRoundRobinUseCase.resetDailyCounters --------------------
CallResetDailyCounters(p) ==
    /\ Begin(p, [IdleProc EXCEPT !.op = "reset", !.pc = "rs_read"])
    /\ UNCHANGED <<valets, zones, vehicles, assigned>>

\* allValets = await valetRepository.findAll()
RSFindAll(p) ==
    /\ procs[p].pc = "rs_read"
    /\ procs' = [procs EXCEPT ![p].allValets = FindAllResult(valets),
                              ![p].pc = "rs_write"]
    /\ UNCHANGED <<valets, zones, vehicles, calls, assigned, pre>>

\* one round of the loop: valet.resetDailyCounters(), then
\* await valetRepository.update(valet)
RSUpdate(p) ==
    /\ procs[p].pc = "rs_write"
    /\ valets' = ValetUpdate(valets,
                             resetDailyCounters(Head(procs[p].allValets)))
    /\ IF Tail(procs[p].allValets) = <<>>
       THEN Finish(p, "none", 0)
       ELSE procs' = [procs EXCEPT ![p].allValets = Tail(@)]
    /\ UNCHANGED <<zones, vehicles, calls, assigned, pre>>

ResetCanStart == calls < MaxResetCalls

ResetNext ==
    \/ Idle /\ ResetCanStart /\ \E p \in Procs : CallAssign(p)
    \/ Idle /\ \E p \in Procs : ARead(p)
    \/ Idle /\ \E p \in Procs : AWrite(p)
    \/ Idle /\ ResetCanStart /\ \E p \in Procs : CallReassign(p)
    \/ Idle /\ \E p \in Procs : RFind(p)
    \/ Idle /\ \E p \in Procs : RUpdate(p)
    \/ Idle /\ ResetCanStart /\ \E p \in Procs : CallComplete(p)
    \/ Idle /\ \E p \in Procs : CComplete(p)
    \/ Idle /\ ResetCanStart /\ \E p \in Procs : CallResetDailyCounters(p)
    \/ Idle /\ \E p \in Procs : RSFindAll(p)
    \/ Idle /\ \E p \in Procs : RSUpdate(p)
    \/ Idle /\ \E p \in Procs : Return(p)

SpecReset == DispatchInit /\ [][ResetNext]_vars

\* the same requests one at a time
DailyCanStart == Serial /\ calls < MaxDailyCalls

\* with one request at a time every request can take the first place
DailyNext ==
    \/ Idle /\ DailyCanStart /\ CallAssign(1)
    \/ Idle /\ ARead(1)
    \/ Idle /\ AWrite(1)
    \/ Idle /\ DailyCanStart /\ CallReassign(1)
    \/ Idle /\ RFind(1)
    \/ Idle /\ RUpdate(1)
    \/ Idle /\ DailyCanStart /\ CallComplete(1)
    \/ Idle /\ CComplete(1)
    \/ Idle /\ DailyCanStart /\ CallResetDailyCounters(1)
    \/ Idle /\ RSFindAll(1)
    \/ Idle /\ RSUpdate(1)
    \/ Idle /\ Return(1)

SpecDaily == DispatchInit /\ [][DailyNext]_vars

\* ------------------------------------------------------------------------
\* SpecLive: vehicles arrive and valets are reassigned a bounded number of
\* times; the lifecycle operations are called for the vehicles that are in
\* the state for them, one request at a time, and are weakly fair
\* ------------------------------------------------------------------------
LiveCanArrive == Serial /\ calls < MaxLiveCalls

\* the operation is called for a vehicle that is in this state
CalledInState(vehicleId, state) ==
    /\ vehicleId <= Len(vehicles)
    /\ vehicles[vehicleId].state = state

\* the mutation moved a vehicle out of this state
MovedFrom(state) ==
    \E vehicleId \in VehicleIds :
        /\ CalledInState(vehicleId, state)
        /\ vehicles'[vehicleId] # vehicles[vehicleId]

LiveMarkParked ==
    /\ Idle
    /\ Serial
    /\ CallMarkParked(1)
    /\ CalledInState(procs'[1].id, "PARKING")

LiveRequestMarkOut ==
    /\ Idle
    /\ Serial
    /\ MRequestMarkOut
    /\ MovedFrom("PARKED")

LiveStartRetrieval ==
    /\ Idle
    /\ Serial
    /\ MStartRetrieval
    /\ MovedFrom("WAITING_MARKOUT")

LiveMarkDelivered ==
    /\ Idle
    /\ Serial
    /\ MMarkVehicleDelivered
    /\ MovedFrom("ON_THE_WAY")

\* a request that has begun runs on to its answer; the read of an assign
\* is the only step that can be taken where it is enabled, and its fairness
\* is stated on the position of the request
LiveStep ==
    /\ Idle
    /\ \/ CECheckDuplicate(1)
       \/ CEFindZone(1)
       \/ AWrite(1)
       \/ CECreate(1)
       \/ CEDecrement(1)
       \/ RFind(1)
       \/ RUpdate(1)
       \/ MPFindVehicle(1)
       \/ MPFindValet(1)
       \/ MPUpdateState(1)
       \/ MPFreeValet(1)
       \/ Return(1)

LiveNext ==
    \/ Idle /\ LiveCanArrive /\ CallCreateEntry(1)
    \/ Idle /\ LiveCanArrive /\ CallReassign(1)
    \/ LiveMarkParked
    \/ LiveRequestMarkOut
    \/ LiveStartRetrieval
    \/ LiveMarkDelivered
    \/ Idle /\ CECheckDuplicate(1)
    \/ Idle /\ CEFindZone(1)
    \/ Idle /\ ARead(1)
    \/ Idle /\ AWrite(1)
    \/ Idle /\ CECreate(1)
    \/ Idle /\ CEDecrement(1)
    \/ Idle /\ RFind(1)
    \/ Idle /\ RUpdate(1)
    \/ Idle /\ MPFindVehicle(1)
    \/ Idle /\ MPFindValet(1)
    \/ Idle /\ MPUpdateState(1)
    \/ Idle /\ MPFreeValet(1)
    \/ Idle /\ Return(1)

LiveFairness ==
    /\ WF_vars(LiveMarkParked)
    /\ WF_vars(LiveStartRetrieval)
    /\ WF_vars(LiveMarkDelivered)
    /\ WF_vars(LiveStep)
    /\ []<>(procs[1].pc # "a_read")

SpecLive == Init /\ [][LiveNext]_vars /\ LiveFairness


\* ------------------------------------------------------------------------
\* Properties of the Vehicle entity (SpecEntity)
\* ------------------------------------------------------------------------
\* the edges of the lifecycle table, written out
AllowedEdges ==
    {<<"PARKING", "PARKED">>,
     <<"PARKED", "SCHEDULED">>,
     <<"PARKED", "WAITING_MARKOUT">>,
     <<"WAITING_MARKOUT", "SCHEDULED">>,
     <<"SCHEDULED", "RETRIEVAL_ASSIGNED">>,
     <<"RETRIEVAL_ASSIGNED", "ON_THE_WAY">>,
     <<"ON_THE_WAY", "DELIVERED">>,
     <<"DELIVERED", "CLOSED">>}

\* C1: every change of a vehicle's state made by a lifecycle method is an
\* edge of the table, and the vehicle is never in a state it has left.
C1_OnlyTableEdges ==
    /\ veh.state # lastOp.before.state =>
           <<lastOp.before.state, veh.state>> \in AllowedEdges
    /\ veh.state \notin left

\* a vehicle that went through the whole lifecycle
C1_Witness ==
    /\ veh.state = "CLOSED"
    /\ left = {"PARKING", "PARKED", "SCHEDULED", "RETRIEVAL_ASSIGNED",
               "ON_THE_WAY", "DELIVERED"}

\* the state each lifecycle method moves the vehicle to
TargetOf(name) ==
    CASE name = "markAsParked" -> "PARKED"
      [] name = "requestMarkOut" -> "SCHEDULED"
      [] name = "assignRetrievalValet" -> "RETRIEVAL_ASSIGNED"
      [] name = "startRetrieval" -> "ON_THE_WAY"
      [] name = "markAsDelivered" -> "DELIVERED"
      [] name = "close" -> "CLOSED"
      [] OTHER -> "none"

\* the last call was made in a source state the table does not allow for it
DisallowedCall ==
    /\ lastOp.name # "new"
    /\ <<lastOp.before.state, TargetOf(lastOp.name)>> \notin AllowedEdges

\* C8: a lifecycle method called in a source state the table does not allow
\* for it fails and leaves every field of the vehicle as before the call.
C8_DisallowedCallChangesNothing ==
    DisallowedCall => (lastOp.err # "none" /\ veh = lastOp.before)

\* ------------------------------------------------------------------------
\* Properties of execute (SpecAssign)
\* ------------------------------------------------------------------------
\* the times of day from start forward to end, wrapping past midnight
WindowTimes(start, end) ==
    {t \in TimesOfDay : (t - start) % DayLen <= (end - start) % DayLen}

\* the row was FREE, active and within its shift window at time tod
Eligible(row, tod) ==
    /\ row.status = "FREE"
    /\ row.isActive
    /\ \/ row.shiftStart = Undefined
       \/ row.shiftEnd = Undefined
       \/ tod \in WindowTimes(row.shiftStart, row.shiftEnd)

\* the returned valet was eligible before the call, with the minimum
\* assignmentSequence and, among those with that minimum, the minimum todayCount
ReturnedIsFairest(r) ==
    r.err = "none" =>
        LET w == asg.before[r.valet.id] IN
        /\ Eligible(w, asg.tod)
        /\ \A u \in ValetIds :
              Eligible(asg.before[u], asg.tod) =>
                  /\ w.assignmentSequence <= asg.before[u].assignmentSequence
                  /\ asg.before[u].assignmentSequence = w.assignmentSequence
                         => w.todayCount <= asg.before[u].todayCount

\* C10 as stated: the returned valet is the fairest eligible one, and two
\* runs from the same valet state return the same valet.
C10_FairestAndDeterministic ==
    asg.ran =>
        /\ ReturnedIsFairest(asg.a)
        /\ ReturnedIsFairest(asg.b)
        /\ (asg.a.err = "none" /\ asg.b.err = "none")
               => asg.a.valet.id = asg.b.valet.id

\* C10 amended: the returned valet is the fairest eligible one, and two runs
\* from the same valet state return valets that differ only when they tie on
\* both assignmentSequence and todayCount.
C10_FairestUpToTies ==
    asg.ran =>
        /\ ReturnedIsFairest(asg.a)
        /\ ReturnedIsFairest(asg.b)
        /\ (asg.a.err = "none" /\ asg.b.err = "none"
               /\ asg.a.valet.id # asg.b.valet.id)
               => LET x == asg.before[asg.a.valet.id]
                      y == asg.before[asg.b.valet.id]
                  IN /\ x.assignmentSequence = y.assignmentSequence
                     /\ x.todayCount = y.todayCount

\* an assign that had to use the todayCount tie-break, with another valet
\* kept out by its shift window
C10_Witness ==
    /\ asg.ran
    /\ asg.a.err = "none"
    /\ \E u \in ValetIds :
          /\ u # asg.a.valet.id
          /\ Eligible(asg.before[u], asg.tod)
          /\ asg.before[u].assignmentSequence
                 = asg.before[asg.a.valet.id].assignmentSequence
          /\ asg.before[u].todayCount > asg.before[asg.a.valet.id].todayCount
    /\ asg.before[asg.a.valet.id].shiftStart # Undefined

\* ------------------------------------------------------------------------
\* Properties of the use cases and mutations (Spec, SpecSeq)
\* ------------------------------------------------------------------------
\* C2: two assign calls in flight at once never hold the same selected
\* valet, and every assignment written is counted in the valet's totalCount.
C2_ConcurrentAssignsDistinct ==
    /\ \A p, q \in Procs :
          (p # q /\ procs[p].pc = "a_write" /\ procs[q].pc = "a_write")
              => procs[p].valet.id # procs[q].valet.id
    /\ \A id \in ValetIds : valets[id].totalCount = assigned[id]

\* the rows of the vehicles that occupy a slot of the zone
Occupying(z) ==
    {i \in 1..Len(vehicles) :
        /\ vehicles[i].zone = z
        /\ vehicles[i].state \notin {"DELIVERED", "CLOSED"}}

\* C3: with createEntry calls racing for the last slot, availableSlots never
\* drops below 0 and a zone never holds more vehicles than its totalSlots.
C3_LastSlotReservedOnce ==
    \A z \in ZoneIds :
        /\ zones[z].availableSlots >= 0
        /\ Cardinality(Occupying(z)) <= zones[z].totalSlots

\* C4: with reserve and release one at a time, availableSlots stays within
\* 0 .. totalSlots, and a createEntry that chose a zone chose one with a
\* free slot.
C4_SlotsWithinBounds ==
    /\ \A z \in ZoneIds :
          /\ zones[z].availableSlots >= 0
          /\ zones[z].availableSlots <= zones[z].totalSlots
    /\ \A p \in Procs :
          (procs[p].op = "createEntry"
              /\ procs[p].pc \in {"a_read", "a_write", "ce_create", "ce_decr"})
              => zones[procs[p].zone].availableSlots > 0

\* the vehicles that hold the valet as their active task
ActiveTasks(id) ==
    {i \in 1..Len(vehicles) :
        \/ /\ vehicles[i].state = "PARKING"
           /\ vehicles[i].parking_valet_id = id
        \/ /\ vehicles[i].state \in {"RETRIEVAL_ASSIGNED", "ON_THE_WAY"}
           /\ vehicles[i].retrieval_valet_id = id}

\* C5: whenever no operation is in progress, a valet is BUSY if and only if
\* exactly one vehicle holds it as its active task.
C5_BusyIffOneActiveTask ==
    Serial =>
        \A id \in ValetIds :
            (valets[id].status = "BUSY") <=> (Cardinality(ActiveTasks(id)) = 1)

\* C6: at most one vehicle record of a plate is in a state other than
\* DELIVERED or CLOSED, also with createEntry calls for the plate in flight
\* at once.
C6_OneActiveRecordPerPlate ==
    \A i, j \in 1..Len(vehicles) :
        (i # j /\ vehicles[i].vehicle_number = vehicles[j].vehicle_number)
            => \/ vehicles[i].state \in {"DELIVERED", "CLOSED"}
               \/ vehicles[j].state \in {"DELIVERED", "CLOSED"}

\* C7: a createEntry or markParked that failed has changed no valet, zone
\* or vehicle: the tables are as they were when the call began.
C7_FailureChangesNothing ==
    \A p \in Procs :
        (/\ procs[p].op \in {"createEntry", "markParked"}
         /\ procs[p].pc = "done"
         /\ procs[p].err # "none"
         /\ pre.valid)
            => /\ valets = pre.valets
               /\ zones = pre.zones
               /\ vehicles = pre.vehicles

\* C9: every write of a vehicle's state by a mutation is an edge of the
\* lifecycle table; a mutation the current state does not allow writes
\* nothing.
C9_MutationsFollowTable ==
    [][\A i \in 1..Len(vehicles) :
          vehicles'[i].state # vehicles[i].state
              => <<vehicles[i].state, vehicles'[i].state>> \in AllowedEdges]_vars

\* ------------------------------------------------------------------------
\* Properties of a successful assignment (SpecAssign)
\* ------------------------------------------------------------------------
\* the row after an assignment
RowAssigned(row) ==
    [row EXCEPT !.status = "BUSY",
                !.assignmentSequence = @ + 1,
                !.todayCount = @ + 1,
                !.totalCount = @ + 1]

\* C11: after a successful assign the row of the selected valet has status
\* BUSY and each of its three counters one higher, and every other row is
\* as before the call.
C11_AssignFrame ==
    (asg.ran /\ asg.a.err = "none") =>
        \A id \in ValetIds :
            valets[id] = IF id = asg.a.valet.id
                         THEN RowAssigned(asg.before[id])
                         ELSE asg.before[id]

\* an assignment made while another valet was eligible too
C11_Witness ==
    /\ asg.ran
    /\ asg.a.err = "none"
    /\ asg.before[asg.a.valet.id].assignmentSequence > 0
    /\ \E u \in ValetIds :
          /\ u # asg.a.valet.id
          /\ Eligible(asg.before[u], asg.tod)
          /\ valets[u].status = "FREE"

\* ------------------------------------------------------------------------
\* Properties of round-robin fairness (SpecFair, SpecFairComplete)
\* ------------------------------------------------------------------------
\* C12: with assign calls made one after another and no task completed, the
\* todayCount of any two valets differ by at most 1, however many calls
\* have been made.
C12_SequentialAssignsBalanced ==
    \A u, v \in ValetIds : valets[u].todayCount - valets[v].todayCount <= 1

\* more calls than valets: every valet is BUSY and the last call found none
C12_Witness ==
    /\ calls > NumValets
    /\ \A id \in ValetIds : valets[id].status = "BUSY"
    /\ \E p \in Procs : procs[p].pc = "done"
                          /\ procs[p].err = "NoAvailableValets"

\* C13: with valets only assigned tasks and completing them, the todayCount
\* of any two active valets differ by at most 2 at every point.
C13_SpreadAtMostTwo ==
    \A u, v \in ValetIds :
        (valets[u].isActive /\ valets[v].isActive)
            => valets[u].todayCount - valets[v].todayCount <= 2

\* ------------------------------------------------------------------------
\* Properties of the single lifecycle operations
\* ------------------------------------------------------------------------
\* C14: markVehicleDelivered changes a vehicle only if it is ON_THE_WAY; it
\* then writes DELIVERED and delivered_at, sets the retrieval valet from BUSY
\* to FREE and gives the slot back to the vehicle's zone.
C14_MarkDeliveredEffects ==
    [][MMarkVehicleDelivered =>
          \A i \in 1..Len(vehicles) :
              vehicles'[i] # vehicles[i] =>
                  /\ vehicles[i].state = "ON_THE_WAY"
                  /\ vehicles'[i].state = "DELIVERED"
                  /\ vehicles'[i].delivered_at = now
                  /\ vehicles[i].retrieval_valet_id \in ValetIds
                  /\ valets[vehicles[i].retrieval_valet_id].status = "BUSY"
                  /\ valets'[vehicles[i].retrieval_valet_id].status = "FREE"
                  /\ zones'[vehicles[i].zone].availableSlots
                         = zones[vehicles[i].zone].availableSlots + 1]_vars

\* C15: startRetrieval on a SCHEDULED or RETRIEVAL_ASSIGNED vehicle fails
\* with the time-gate error before scheduledAt and changes nothing; from
\* scheduledAt on it succeeds, with state ON_THE_WAY and retrievalStartedAt
\* the time of the call.
C15_StartRetrievalTimeGate ==
    (/\ lastOp.name = "startRetrieval"
     /\ lastOp.fresh
     /\ lastOp.before.state \in {"SCHEDULED", "RETRIEVAL_ASSIGNED"})
        => IF now < lastOp.before.scheduledAt
           THEN /\ lastOp.err = "RetrievalTimeNotReached"
                /\ veh = lastOp.before
           ELSE /\ lastOp.err = "none"
                /\ veh.state = "ON_THE_WAY"
                /\ veh.retrievalStartedAt = now

\* C16: assignRetrievalValet succeeds on a SCHEDULED and on a
\* RETRIEVAL_ASSIGNED vehicle, which is then RETRIEVAL_ASSIGNED with the
\* valet as retrievalValetId; in every other state it fails.
C16_AssignRetrievalValetStates ==
    lastOp.name = "assignRetrievalValet" =>
        IF lastOp.before.state \in {"SCHEDULED", "RETRIEVAL_ASSIGNED"}
        THEN /\ lastOp.err = "none"
             /\ veh.state = "RETRIEVAL_ASSIGNED"
             /\ veh.retrievalValetId \in ValetIds
        ELSE lastOp.err # "none"

\* C17: requestMarkOut changes a vehicle only if it is PARKED or
\* WAITING_MARKOUT and the minutes are 5, 7 or 10; it then writes SCHEDULED,
\* markout_requested_at = now and scheduled_at = now + minutes.
C17_RequestMarkOutEffects ==
    [][MRequestMarkOut =>
          \A i \in 1..Len(vehicles) :
              vehicles'[i] # vehicles[i] =>
                  /\ vehicles[i].state \in {"PARKED", "WAITING_MARKOUT"}
                  /\ vehicles'[i].state = "SCHEDULED"
                  /\ vehicles'[i].markout_requested_at = now
                  /\ \E m \in ValidMinutes :
                        vehicles'[i].scheduled_at = now + m]_vars

\* ------------------------------------------------------------------------
\* Properties of markVehicleParked and createVehicleEntry, one request at
\* a time; pre holds the tables as they were when the request began
\* ------------------------------------------------------------------------
\* the request of p has been answered and was the only one in flight
Answered(p, op) ==
    /\ procs[p].op = op
    /\ procs[p].pc = "done"
    /\ pre.valid

\* C18: markParked succeeds exactly on a PARKING vehicle with a parking
\* valet: the vehicle is then PARKED and the valet, BUSY before, is FREE,
\* and nothing else has changed; otherwise it fails and no vehicle and no
\* valet has changed.
C18_MarkParkedExactlyOnParking ==
    \A p \in Procs :
        Answered(p, "markParked") =>
            LET i == procs[p].id
                parking == /\ i <= Len(pre.vehicles)
                           /\ pre.vehicles[i].state = "PARKING"
                           /\ pre.vehicles[i].parking_valet_id \in ValetIds
            IN IF parking
               THEN /\ procs[p].err = "none"
                    /\ vehicles = [pre.vehicles EXCEPT ![i].state = "PARKED"]
                    /\ pre.valets[pre.vehicles[i].parking_valet_id].status = "BUSY"
                    /\ valets = [pre.valets EXCEPT
                                    ![pre.vehicles[i].parking_valet_id].status = "FREE"]
               ELSE /\ procs[p].err # "none"
                    /\ vehicles = pre.vehicles
                    /\ valets = pre.valets

\* C19: a createEntry with valid input, no active record of the plate, a
\* zone with a free slot and a valet that is FREE, active and in shift
\* succeeds: one PARKING vehicle is added with a zone that had a free slot
\* and a valet that was FREE; that valet is BUSY with its counters one
\* higher, that zone has one slot less, and nothing else has changed.
C19_CreateEntrySucceeds ==
    \A p \in Procs :
        (/\ Answered(p, "createEntry")
         /\ procs[p].err # "Validation"
         /\ ~HasActiveByVehicleNumber(pre.vehicles, procs[p].plate)
         /\ \E z \in ZoneIds : pre.zones[z].isActive
                                 /\ pre.zones[z].availableSlots > 0
         /\ \E id \in ValetIds : /\ pre.valets[id].status = "FREE"
                                 /\ pre.valets[id].isActive
                                 /\ pre.valets[id].shiftStart = Undefined)
            => /\ procs[p].err = "none"
               /\ Len(vehicles) = Len(pre.vehicles) + 1
               /\ SubSeq(vehicles, 1, Len(pre.vehicles)) = pre.vehicles
               /\ LET row == vehicles[Len(vehicles)] IN
                  /\ row.state = "PARKING"
                  /\ row.vehicle_number = procs[p].plate
                  /\ row.parking_valet_id = procs[p].ret
                  /\ pre.zones[row.zone].isActive
                  /\ pre.zones[row.zone].availableSlots > 0
                  /\ pre.valets[row.parking_valet_id].status = "FREE"
                  /\ valets = [pre.valets EXCEPT
                                  ![row.parking_valet_id] = RowAssigned(@)]
                  /\ zones = [pre.zones EXCEPT
                                 ![row.zone].availableSlots = @ - 1]

\* a createEntry for a new plate, with valid input, answered when every
\* active zone was full
FullZonesEntry(p) ==
    /\ Answered(p, "createEntry")
    /\ procs[p].err # "Validation"
    /\ ~HasActiveByVehicleNumber(pre.vehicles, procs[p].plate)
    /\ \A z \in ZoneIds : pre.zones[z].isActive
                            => pre.zones[z].availableSlots = 0

\* C20: when every active zone has no free slot, a createEntry for a new
\* plate fails with the capacity error, and no valet, zone or vehicle has
\* changed.
C20_FullZonesRejectEntry ==
    \A p \in Procs :
        FullZonesEntry(p) =>
            /\ procs[p].err = "NoSlots"
            /\ valets = pre.valets
            /\ zones = pre.zones
            /\ vehicles = pre.vehicles

\* the zones were full while a valet was FREE and active
C20_Witness ==
    \E p \in Procs :
        /\ FullZonesEntry(p)
        /\ Len(vehicles) > 0
        /\ \E id \in ValetIds : valets[id].status = "FREE"
                                  /\ valets[id].isActive

\* the plate has a record, and every record of it is DELIVERED or CLOSED
HasOnlyFinishedRecords(rows, vehicleNumber) ==
    /\ \E i \in 1..Len(rows) : rows[i].vehicle_number = vehicleNumber
    /\ ~HasActiveByVehicleNumber(rows, vehicleNumber)

\* C21: a createEntry for a plate that has a record in a state other than
\* DELIVERED or CLOSED fails with the conflict error and changes no table;
\* once the records of the plate are finished, a createEntry for it succeeds
\* when a zone has a free slot and a valet is FREE, active and in shift.
C21_DuplicateRejectedThenAccepted ==
    \A p \in Procs :
        (Answered(p, "createEntry") /\ procs[p].err # "Validation") =>
            /\ HasActiveByVehicleNumber(pre.vehicles, procs[p].plate) =>
                  /\ procs[p].err = "Duplicate"
                  /\ valets = pre.valets
                  /\ zones = pre.zones
                  /\ vehicles = pre.vehicles
            /\ (/\ HasOnlyFinishedRecords(pre.vehicles, procs[p].plate)
                /\ \E z \in ZoneIds : pre.zones[z].isActive
                                        /\ pre.zones[z].availableSlots > 0
                /\ \E id \in ValetIds : /\ pre.valets[id].status = "FREE"
                                        /\ pre.valets[id].isActive
                                        /\ pre.valets[id].shiftStart = Undefined) =>
                  /\ procs[p].err = "none"
                  /\ Len(vehicles) = Len(pre.vehicles) + 1
                  /\ vehicles[Len(vehicles)].vehicle_number = procs[p].plate

\* ------------------------------------------------------------------------
\* Properties of close and of the terminal state (SpecEntity)
\* ------------------------------------------------------------------------
\* C22: close succeeds only on a DELIVERED vehicle, which is then CLOSED with
\* closedAt the time of the call and its other fields kept; a call of any
\* lifecycle method on a CLOSED vehicle fails and changes none of its
\* fields, and a vehicle never leaves CLOSED.
C22_CloseOnlyDeliveredClosedTerminal ==
    /\ lastOp.name = "close" =>
           IF lastOp.before.state = "DELIVERED"
           THEN /\ lastOp.err = "none"
                /\ veh.state = "CLOSED"
                /\ veh.closedAt # Undefined
                /\ lastOp.fresh => veh.closedAt = now
                /\ veh = [lastOp.before EXCEPT !.state = "CLOSED",
                                               !.closedAt = veh.closedAt,
                                               !.updatedAt = veh.closedAt]
           ELSE /\ lastOp.err # "none"
                /\ veh = lastOp.before
    /\ (lastOp.name # "new" /\ lastOp.before.state = "CLOSED") =>
           /\ lastOp.err # "none"
           /\ veh = lastOp.before
    /\ "CLOSED" \notin left

\* a vehicle closed at a time after its delivery, on which a lifecycle
\* method other than close was then called
C22_Witness ==
    /\ veh.state = "CLOSED"
    /\ veh.closedAt > veh.deliveredAt
    /\ lastOp.before.state = "CLOSED"
    /\ lastOp.name = "assignRetrievalValet"

\* ------------------------------------------------------------------------
\* Properties of a failed assignment (SpecAssign)
\* ------------------------------------------------------------------------
\* no row was eligible when execute was called
NoneEligible ==
    /\ asg.ran
    /\ \A id \in ValetIds : ~Eligible(asg.before[id], asg.tod)

\* the breakdown of the active rows before the call: the number with each
\* status and the number outside their shift window
BreakdownBefore ==
    LET active == {id \in ValetIds : asg.before[id].isActive}
        count(status) ==
            Cardinality({id \in active : asg.before[id].status = status})
    IN [FREE |-> count("FREE"), BUSY |-> count("BUSY"),
        BREAK |-> count("BREAK"), OFF_DUTY |-> count("OFF_DUTY"),
        outOfShift |->
            Cardinality({id \in active :
                /\ asg.before[id].shiftStart # Undefined
                /\ asg.before[id].shiftEnd # Undefined
                /\ asg.tod \notin WindowTimes(asg.before[id].shiftStart,
                                              asg.before[id].shiftEnd)})]

\* C23 as stated: when no valet is FREE, active and within its shift window,
\* assign fails with the no-available-valet error that carries the counts by
\* status and the out-of-shift count, and no valet row changes.
C23_NoEligibleValetFails ==
    NoneEligible =>
        /\ asg.a.err = "NoAvailableValets"
        /\ asg.a.detail = BreakdownBefore
        /\ valets = asg.before

\* C23 amended: assign then fails and no valet row changes; the error
\* carries the counts of the active valets when there is an active valet,
\* and is the no-active-valets error without counts when there is none.
C23_NoEligibleValetFailsAmended ==
    NoneEligible =>
        /\ valets = asg.before
        /\ IF \E id \in ValetIds : asg.before[id].isActive
           THEN /\ asg.a.err = "NoAvailableValets"
                /\ asg.a.detail = BreakdownBefore
           ELSE /\ asg.a.err = "NoActiveValets"
                /\ asg.a.detail = NoBreakdown

\* a failed assign with a FREE valet outside its shift and a BUSY valet
C23_Witness ==
    /\ NoneEligible
    /\ asg.a.err = "NoAvailableValets"
    /\ asg.a.detail.outOfShift > 0
    /\ asg.a.detail.FREE > 0
    /\ asg.a.detail.BUSY > 0

\* ------------------------------------------------------------------------
\* Properties of the operations on valets (SpecDispatch)
\* ------------------------------------------------------------------------
\* C24: the end of a task on a BUSY valet sets its status to FREE and
\* changes nothing else; on a valet with any other status it fails with the
\* invalid-state error and no valet row changes.
C24_CompleteOnlyWhenBusy ==
    \A p \in Procs :
        Answered(p, "complete") =>
            IF pre.valets[procs[p].id].status = "BUSY"
            THEN /\ procs[p].err = "none"
                 /\ valets = [pre.valets EXCEPT ![procs[p].id].status = "FREE"]
            ELSE /\ procs[p].err = "CannotCompleteTask"
                 /\ valets = pre.valets

\* the task of a BUSY valet with counted assignments has ended
C24_Witness ==
    \E p \in Procs :
        /\ Answered(p, "complete")
        /\ pre.valets[procs[p].id].status = "BUSY"
        /\ valets[procs[p].id].totalCount > 0
        /\ valets[procs[p].id].status = "FREE"

\* C25: resetDailyCounters sets assignmentSequence and todayCount of every
\* valet to 0 and leaves every other column of every valet as it was (so a
\* second run changes nothing more).
C25_ResetZeroesDailyCounters ==
    [][MResetDailyCounters =>
          \A id \in ValetIds :
              valets'[id] = [valets[id] EXCEPT !.assignmentSequence = 0,
                                               !.todayCount = 0]]_vars

\* the valet table after the counters of the abandoned valet were lowered
Abandoned(tab, a) ==
    IF a \in ValetIds
    THEN [tab EXCEPT
             ![a].todayCount = IF @ > 0 THEN @ - 1 ELSE 0,
             ![a].assignmentSequence = IF @ > 0 THEN @ - 1 ELSE 0]
    ELSE tab

\* at some time of day the row r of the table is eligible with the minimum
\* assignmentSequence and, among the rows with that minimum, the minimum
\* todayCount
FairestIn(tab, r) ==
    \E tod \in TimesOfDay :
        /\ Eligible(tab[r], tod)
        /\ \A u \in ValetIds :
              Eligible(tab[u], tod) =>
                  /\ tab[r].assignmentSequence <= tab[u].assignmentSequence
                  /\ tab[u].assignmentSequence = tab[r].assignmentSequence
                         => tab[r].todayCount <= tab[u].todayCount

\* C26: reassign lowers todayCount and assignmentSequence of the abandoned
\* valet by one, not below 0, and then assigns: the valet it returns was
\* the fairest eligible one of the table so lowered and is BUSY with its
\* three counters one higher, every other row being as in the lowered
\* table; when it fails, only the lowering has been written.
C26_ReassignLowersThenAssigns ==
    \A p \in Procs :
        Answered(p, "reassign") =>
            LET mid == Abandoned(pre.valets, procs[p].id)
            IN IF procs[p].err = "none"
               THEN /\ procs[p].ret \in ValetIds
                    /\ FairestIn(mid, procs[p].ret)
                    /\ valets = [mid EXCEPT ![procs[p].ret] = RowAssigned(@)]
               ELSE /\ valets = mid
                    /\ \E tod \in TimesOfDay :
                          \A u \in ValetIds : ~Eligible(mid[u], tod)

\* a task taken from a valet with counted assignments and given to another
C26_Witness ==
    \E p \in Procs :
        /\ Answered(p, "reassign")
        /\ procs[p].err = "none"
        /\ procs[p].id \in ValetIds
        /\ pre.valets[procs[p].id].assignmentSequence > 0
        /\ procs[p].ret # procs[p].id
        /\ valets[procs[p].ret].status = "BUSY"

\* ------------------------------------------------------------------------
\* Properties of the zone choice and of the slots (SpecEntry, SpecSeq)
\* ------------------------------------------------------------------------
\* the zones are numbered in the order of their zone codes
ZoneCode(z) == z

\* C27: the zone a createEntry has just chosen is active with a free slot,
\* has the minimum priority value among such zones and, among those of that
\* priority, the smallest zone code.
C27_ZoneChoiceMinPriorityThenCode ==
    \A p \in Procs :
        (procs[p].op = "createEntry" /\ procs[p].pc = "a_read") =>
            LET z == procs[p].zone IN
            /\ zones[z].isActive
            /\ zones[z].availableSlots > 0
            /\ \A y \in ZoneIds :
                  (zones[y].isActive /\ zones[y].availableSlots > 0) =>
                      /\ zones[z].priority <= zones[y].priority
                      /\ zones[z].priority = zones[y].priority
                             => ZoneCode(z) <= ZoneCode(y)

\* C28: a release adds exactly one to availableSlots of a zone that is below
\* its totalSlots and changes no zone that is at its totalSlots, so that no
\* release takes availableSlots above totalSlots.
C28_ReleaseCappedAtTotal ==
    [][RIncrementAvailableSlots =>
          \A z \in ZoneIds :
              IF zones[z].availableSlots < zones[z].totalSlots
              THEN zones'[z].availableSlots - zones[z].availableSlots \in {0, 1}
              ELSE zones'[z] = zones[z]]_vars

\* C29: no two vehicles that occupy a slot of the same zone carry the same
\* slot label.
C29_SlotLabelsDistinct ==
    \A z \in ZoneIds :
        \A i, j \in Occupying(z) :
            i # j => vehicles[i].slot # vehicles[j].slot

\* ------------------------------------------------------------------------
\* Properties of the notification and audit sinks (SpecSinks)
\* ------------------------------------------------------------------------
\* C30: a createEntry or markParked whose notification or transition log
\* failed is not answered with an error: once its writes are made, the
\* request ends in success with the valet, zone and vehicle changes kept.
C30_SinkFailureNotRaised ==
    \A p \in Procs :
        (procs[p].op \in {"createEntry", "markParked"} /\ procs[p].pc = "done")
            => procs[p].err \notin {"NotificationFailed", "AuditFailed"}

\* ------------------------------------------------------------------------
\* Properties of requests with unknown ids (SpecSeq)
\* ------------------------------------------------------------------------
\* C31: a markParked with an unknown vehicle id, or for a vehicle whose
\* parking valet has no record, and a reassign with an unknown valet id
\* fail with a not-found error, and no valet, zone or vehicle has changed.
C31_UnknownIdFailsNotFound ==
    \A p \in Procs :
        (\/ /\ Answered(p, "markParked")
            /\ \/ procs[p].id > Len(pre.vehicles)
               \/ pre.vehicles[procs[p].id].parking_valet_id \notin ValetIds
         \/ /\ Answered(p, "reassign")
            /\ procs[p].id \notin ValetIds)
            => /\ procs[p].err \in {"VehicleNotFound", "ValetNotFound",
                                    "NoParkingValet"}
               /\ valets = pre.valets
               /\ zones = pre.zones
               /\ vehicles = pre.vehicles

\* ------------------------------------------------------------------------
\* Properties of the MarkOutRequest (SpecMarkOut)
\* ------------------------------------------------------------------------
\* C32: a call of complete or cancel on a request that is COMPLETED or
\* CANCELLED leaves its status as it was.
C32_MarkOutRequestTerminal ==
    (lastOp.name \in {"complete", "cancel"}
        /\ lastOp.before.status \in {"COMPLETED", "CANCELLED"})
        => markOut.status = lastOp.before.status

\* ------------------------------------------------------------------------
\* Properties of generateToken (SpecToken)
\* ------------------------------------------------------------------------
\* C33: every generated token is "VLT-" followed by exactly nine decimal
\* digits.
C33_TokenIsVltNineDigits ==
    issuedToken # <<>> =>
        /\ Len(issuedToken) = 13
        /\ SubSeq(issuedToken, 1, 4) = <<"V", "L", "T", "-">>
        /\ \A i \in 5..Len(issuedToken) : issuedToken[i] \in DigitChars

\* ------------------------------------------------------------------------
\* Properties of the phone validation of createEntry (SpecEntry)
\* ------------------------------------------------------------------------
\* C34: a createEntry whose phone is a valid local mobile number written with
\* the country code 91 in front is not rejected as an invalid phone number.
C34_CountryCodePhoneAccepted ==
    \A p \in Procs :
        (/\ procs[p].op = "createEntry"
         /\ procs[p].dtoPhone = <<"9", "1">> \o LocalPhone
         /\ phoneRegexTest(LocalPhone))
            => procs[p].message # "InvalidPhone"

\* ------------------------------------------------------------------------
\* Properties of the parking valet of a created vehicle (SpecPark)
\* ------------------------------------------------------------------------
\* C35: the vehicle that createEntry saves and returns, and the vehicle read
\* back by its id once createEntry has answered, are PARKING with
\* parkingValetId the assigned valet of the response; a markParked of a
\* PARKING vehicle then succeeds and its valet, BUSY before, is FREE.
C35_ParkingValetRoundTrip ==
    \A p \in Procs :
        /\ procs[p].pc = "ce_decr" =>
               /\ procs[p].vehicle.parkingValetId = procs[p].valet.id
               /\ procs[p].vehicle.state = "PARKING"
        /\ (Answered(p, "createEntry") /\ procs[p].err = "none") =>
               LET read == VehicleToDomain(vehicles[procs[p].id], procs[p].id)
               IN /\ read.parkingValetId = procs[p].ret
                  /\ read.state = "PARKING"
        /\ (/\ Answered(p, "markParked")
            /\ procs[p].id <= Len(pre.vehicles)
            /\ pre.vehicles[procs[p].id].state = "PARKING") =>
               LET v == pre.vehicles[procs[p].id].parking_valet_id
               IN /\ procs[p].err = "none"
                  /\ v \in ValetIds
                  /\ pre.valets[v].status = "BUSY"
                  /\ valets[v].status = "FREE"

\* a markParked of a created vehicle has been answered
C35_Witness ==
    \E p \in Procs :
        /\ Answered(p, "markParked")
        /\ procs[p].id <= Len(pre.vehicles)
        /\ pre.vehicles[procs[p].id].state = "PARKING"
        /\ procs[p].err = "none"
        /\ valets[pre.vehicles[procs[p].id].parking_valet_id].status = "FREE"

\* ------------------------------------------------------------------------
\* Properties of the slot accounting over the lifecycle (SpecSeq)
\* ------------------------------------------------------------------------
\* C36: whenever no request is in progress, every zone has given out as many
\* slots (totalSlots - availableSlots) as it has vehicles that are not
\* DELIVERED or CLOSED.
C36_SlotsHeldMatchVehicles ==
    Serial =>
        \A z \in ZoneIds :
            zones[z].totalSlots - zones[z].availableSlots
                = Cardinality(Occupying(z))

\* ------------------------------------------------------------------------
\* Properties of the two daily counters (SpecDaily)
\* ------------------------------------------------------------------------
\* C37: every valet has assignmentSequence equal to todayCount, at the start
\* and after every assign, complete, reset and reassign.
C37_SequenceEqualsTodayCount ==
    \A id \in ValetIds :
        valets[id].assignmentSequence = valets[id].todayCount

\* a reset has been answered that zeroed the counters of a valet that had
\* been assigned
C37_Witness ==
    \E p \in Procs :
        /\ Answered(p, "reset")
        /\ \E id \in ValetIds :
              /\ pre.valets[id].assignmentSequence > 0
              /\ valets[id].assignmentSequence = 0
              /\ valets[id].todayCount = 0

\* ------------------------------------------------------------------------
\* Properties of the dispatcher's daily reset (SpecReset)
\* ------------------------------------------------------------------------
\* C38: no write of resetDailyCounters changes the status of a valet, also
\* when an assign or a complete has written between the reset's read of the
\* valet list and this write.
C38_ResetKeepsStatus ==
    [][(\E p \in Procs : RSUpdate(p)) =>
          \A id \in ValetIds : valets'[id].status = valets[id].status]_vars

\* ------------------------------------------------------------------------
\* Properties of the retrieval schedule (SpecSeq)
\* ------------------------------------------------------------------------
\* C39: every vehicle that is ON_THE_WAY, DELIVERED or CLOSED has a scheduled
\* time, and its retrieval started at or after that time.
C39_RetrievalNotBeforeSchedule ==
    \A i \in 1..Len(vehicles) :
        vehicles[i].state \in {"ON_THE_WAY", "DELIVERED", "CLOSED"} =>
            /\ vehicles[i].scheduled_at # Undefined
            /\ vehicles[i].retrieval_started_at # Undefined
            /\ vehicles[i].retrieval_started_at >= vehicles[i].scheduled_at

\* ------------------------------------------------------------------------
\* Properties of the release of valets (SpecLive)
\* ------------------------------------------------------------------------
\* C40: with the lifecycle operations weakly fair, every valet that is BUSY
\* is FREE again at some later time.
C40_BusyValetEventuallyFree ==
    \A id \in ValetIds :
        (valets[id].status = "BUSY") ~> (valets[id].status = "FREE")

====
